---- MODULE Spec2Model ----
(***************************************************************************)
(* Model of otelzlog: the zerolog hook that re-emits log events as         *)
(* OpenTelemetry log records (hook.go) and the converters it uses          *)
(* (converters.go: convertLevel, convertAttribute, convertUintValue,       *)
(* convertLogToAttribute).                                                 *)
(*                                                                         *)
(* Representation.  TLC's integers are 32 bits wide, so a 64-bit integer   *)
(* is the tuple <<neg, hi, mid, lo>> of its sign (0 or 1) and its          *)
(* magnitude hi*10^14 + mid*10^7 + lo.  Every Go value and every           *)
(* log.Value is a record with the same fields, so that any two of them     *)
(* can be compared.                                                        *)
(***************************************************************************)
EXTENDS Integers, Sequences, FiniteSets, TLC

VARIABLES
    in,         \* converter harness: the Go value handed to convertAttribute
    out,        \* converter harness: the outcome of convertAttribute(in)
    prev,       \* converter harness: the outcome of the conversion of in before out
    attr,       \* converter harness: convertLogToAttribute(out)
    lvl,        \* converter harness: the zerolog level handed to convertLevel
    sev,        \* converter harness: the outcome of convertLevel(lvl)
    phase,      \* converter harness: "input", "converted", "bridged"
    cfg,        \* the Hook's fields, set at construction
    calls,      \* history: the enabled events the hook was run on
    spanEvents, \* the active span: events added by AddEvent
    spanErrors, \* the active span: exceptions recorded by RecordError
    spanStatus, \* the active span: status code
    records,    \* the records handed to otelLogger.Emit
    last,       \* history: whether the last event handed to Hook.Run was enabled
    ctx,        \* the context events are fired in: the spans started and not ended,
                \* innermost last
    spansStarted, \* the number of spans started so far
    writers,    \* config.writers: the destinations added with WithWriter
    applied,    \* history: the destinations in the order their options were applied
    built,      \* whether New has returned
    failed,     \* whether New reported a failure
    sinks,      \* what each destination has received, line by line
    routines,   \* the goroutines that log concurrently: for each its position in
                \* Hook.Run, its locals, and what its span has received
    heap,       \* converter on linked values: the values in memory, by address
    stack,      \* converter on linked values: the calls of convertAttribute in progress
    walk,       \* converter on linked values: "running", "done" or "overflow"
    loggerContext, \* the fields attached to the logger kept in the context: whether
                \* they leave the buffer of every event parsable as JSON
    pending     \* the calls of Hook.Run in progress, outermost first

convVars == <<in, out, prev, attr, lvl, sev, phase>>
walkVars == <<heap, stack, walk>>
reportVars == <<loggerContext, pending>>
loggerVars == <<writers, applied, built, failed, sinks>>
hookVars == <<cfg, calls, spanEvents, spanErrors, spanStatus, records, last, ctx, spansStarted,
              writers, applied, built, failed, sinks, routines, heap, stack, walk,
              loggerContext, pending>>
vars == <<in, out, prev, attr, lvl, sev, phase, cfg, calls, spanEvents, spanErrors, spanStatus, records, last,
          ctx, spansStarted, writers, applied, built, failed, sinks, routines,
          heap, stack, walk, loggerContext, pending>>

(***************************************************************************)
(* Bounds of the model.                                                    *)
(***************************************************************************)
\* nesting depth of containers (slice, map, pointer) in converter inputs
MaxDepth == 2
\* number of elements of a top-level slice, array or map in converter inputs
MaxLen == 2
\* number of enabled events fired through the hook in one behaviour
MaxEvents == 2
\* number of spans started in one behaviour
MaxSpans == 3
\* number of WithWriter options handed to New
MaxWriters == 2

(***************************************************************************)
(* 64-bit integers.                                                        *)
(***************************************************************************)
Limb == 10^7

Z(neg, hi, mid, lo) == <<neg, hi, mid, lo>>
Zero == Z(0, 0, 0, 0)
Small(i) == IF i < 0 THEN Z(1, 0, 0, 0 - i) ELSE Z(0, 0, 0, i)

\* math.MaxInt64 = 9223372036854775807
MaxInt64 == Z(0, 92233, 7203685, 4775807)
\* 2^64 = 18446744073709551616, the modulus of uint64
TwoTo64 == Z(0, 184467, 4407370, 9551616)

\* x > y on magnitudes
MagGT(x, y) ==
    \/ x[2] > y[2]
    \/ x[2] = y[2] /\ x[3] > y[3]
    \/ x[2] = y[2] /\ x[3] = y[3] /\ x[4] > y[4]

\* x - y on magnitudes, for x >= y
MagSub(x, y) ==
    LET lo  == x[4] - y[4]
        b0  == IF lo < 0 THEN 1 ELSE 0
        mid == x[3] - y[3] - b0
        b1  == IF mid < 0 THEN 1 ELSE 0
    IN  Z(0, x[2] - y[2] - b1, mid + b1 * Limb, lo + b0 * Limb)

\* the conversion int64(v) of a uint64: the same 64 bits read as two's complement
Uint64ToInt64(v) ==
    IF MagGT(v, MaxInt64)
    THEN LET m == MagSub(TwoTo64, v) IN Z(1, m[2], m[3], m[4])
    ELSE v

Pad7(n) ==
    IF n < 10 THEN "000000" \o ToString(n)
    ELSE IF n < 100 THEN "00000" \o ToString(n)
    ELSE IF n < 1000 THEN "0000" \o ToString(n)
    ELSE IF n < 10000 THEN "000" \o ToString(n)
    ELSE IF n < 100000 THEN "00" \o ToString(n)
    ELSE IF n < 1000000 THEN "0" \o ToString(n)
    ELSE ToString(n)

\* strconv.FormatUint(v, 10)
FormatUint(v) ==
    IF v[2] > 0 THEN ToString(v[2]) \o Pad7(v[3]) \o Pad7(v[4])
    ELSE IF v[3] > 0 THEN ToString(v[3]) \o Pad7(v[4])
    ELSE ToString(v[4])

\* strconv.FormatInt(v, 10)
FormatInt(v) == IF v[1] = 1 THEN "-" \o FormatUint(v) ELSE FormatUint(v)

(***************************************************************************)
(* log.Value, the canonical attribute value of go.opentelemetry.io/otel/log *)
(* kind is one of Empty, Bool, Float64, Int64, String, Bytes, Slice, Map.  *)
(* A float is kept as its shortest decimal text.  The outcome of a call    *)
(* that panicked is the pseudo value of kind "panic".                      *)
(***************************************************************************)
Kinds == {"Empty", "Bool", "Float64", "Int64", "String", "Bytes", "Slice", "Map"}

Val(k, b, s, n, items, kvs) ==
    [kind |-> k, b |-> b, s |-> s, n |-> n, items |-> items, kvs |-> kvs]

EmptyValue == Val("Empty", FALSE, "", Zero, <<>>, <<>>)
BoolValue(b) == Val("Bool", b, "", Zero, <<>>, <<>>)
Float64Value(f) == Val("Float64", FALSE, f, Zero, <<>>, <<>>)
Int64Value(n) == Val("Int64", FALSE, "", n, <<>>, <<>>)
StringValue(s) == Val("String", FALSE, s, Zero, <<>>, <<>>)
BytesValue(s) == Val("Bytes", FALSE, s, Zero, <<>>, <<>>)
SliceValue(items) == Val("Slice", FALSE, "", Zero, items, <<>>)
MapValue(kvs) == Val("Map", FALSE, "", Zero, <<>>, kvs)
Panicked(why) == Val("panic", FALSE, why, Zero, <<>>, <<>>)

KeyValue(k, v) == [Key |-> k, Value |-> v]

(***************************************************************************)
(* Go values handed to convertAttribute: t is the dynamic type.            *)
(*   bool, string: b, s           intN, uintN, uintptr, duration, time: n  *)
(*   float32, float64: s          complex64, complex128: items = <<re, im>>*)
(*   bytes: s                     error: s = Error()                       *)
(*   nilerrptr: a nil *T where T implements error; b tells whether         *)
(*     T.Error dereferences its receiver, s is what it returns otherwise   *)
(*   nil: the nil interface       ptr: items = <<referent>>, <<>> when nil *)
(*   slice, array: items          map: kvs, entries [key, val]             *)
(*   struct: s = type name, kvs = fields in declaration order              *)
(*   chan, func: s = type name    defined: a defined type whose underlying *)
(*     type is an integer, s = type name, n = value                        *)
(***************************************************************************)
Go(t, b, s, n, items, kvs) ==
    [t |-> t, b |-> b, s |-> s, n |-> n, items |-> items, kvs |-> kvs]

GoBool(b) == Go("bool", b, "", Zero, <<>>, <<>>)
GoString(s) == Go("string", FALSE, s, Zero, <<>>, <<>>)
GoInt(t, n) == Go(t, FALSE, "", n, <<>>, <<>>)
GoFloat(t, f) == Go(t, FALSE, f, Zero, <<>>, <<>>)
GoComplex(t, re, im) == Go(t, FALSE, "", Zero, <<GoFloat("float64", re), GoFloat("float64", im)>>, <<>>)
GoBytes(s) == Go("bytes", FALSE, s, Zero, <<>>, <<>>)
GoError(msg) == Go("error", FALSE, msg, Zero, <<>>, <<>>)
GoNilErrPtr(derefs, msg) == Go("nilerrptr", derefs, msg, Zero, <<>>, <<>>)
GoNil == Go("nil", FALSE, "", Zero, <<>>, <<>>)
GoNilPtr == Go("ptr", FALSE, "", Zero, <<>>, <<>>)
GoPtr(v) == Go("ptr", FALSE, "", Zero, <<v>>, <<>>)
GoSlice(items) == Go("slice", FALSE, "", Zero, items, <<>>)
GoArray(items) == Go("array", FALSE, "", Zero, items, <<>>)
GoMap(kvs) == Go("map", FALSE, "", Zero, <<>>, kvs)
GoStruct(name, fields) == Go("struct", FALSE, name, Zero, <<>>, fields)
GoOpaque(t, name) == Go(t, FALSE, name, Zero, <<>>, <<>>)
GoDefined(name, n) == Go("defined", FALSE, name, n, <<>>, <<>>)

Entry(k, v) == [key |-> k, val |-> v]

SignedTypes == {"int", "int8", "int16", "int32", "int64"}
NarrowUnsignedTypes == {"uint8", "uint16", "uint32"}
WideUnsignedTypes == {"uint", "uint64", "uintptr"}

(***************************************************************************)
(* zerolog.Level (an int8) and log.Severity.                               *)
(***************************************************************************)
TraceLevel == -1
DebugLevel == 0
InfoLevel == 1
WarnLevel == 2
ErrorLevel == 3
FatalLevel == 4
PanicLevel == 5
NoLevel == 6
Disabled == 7

SeverityTrace == 1
SeverityDebug == 5
SeverityInfo == 9
SeverityWarn == 13
SeverityError == 17
SeverityFatal == 21

\* convertLevel, converters.go: the default case falls through to Info
convertLevelDefaultTrace(level) ==
    CASE level = TraceLevel -> <<SeverityTrace, "TRACE">>
      [] level = DebugLevel -> <<SeverityDebug, "DEBUG">>
      [] level = InfoLevel  -> <<SeverityInfo, "INFO">>
      [] level = WarnLevel  -> <<SeverityWarn, "WARN">>
      [] level = ErrorLevel -> <<SeverityError, "ERROR">>
      [] level = FatalLevel -> <<SeverityFatal, "FATAL">>
      [] level = PanicLevel -> <<SeverityFatal, "PANIC">>
      [] OTHER              -> <<SeverityTrace, "TRACE">>

convertLevel(level) ==
    CASE level = TraceLevel -> <<SeverityTrace, "TRACE">>
      [] level = DebugLevel -> <<SeverityDebug, "DEBUG">>
      [] level = InfoLevel  -> <<SeverityInfo, "INFO">>
      [] level = WarnLevel  -> <<SeverityWarn, "WARN">>
      [] level = ErrorLevel -> <<SeverityError, "ERROR">>
      [] level = FatalLevel -> <<SeverityFatal, "FATAL">>
      [] level = PanicLevel -> <<SeverityFatal, "FATAL">>
      [] OTHER              -> <<SeverityInfo, "INFO">>

(***************************************************************************)
(* Formatting.                                                             *)
(***************************************************************************)
RECURSIVE Join(_, _)
Join(strs, sep) ==
    IF Len(strs) = 0 THEN ""
    ELSE IF Len(strs) = 1 THEN strs[1]
    ELSE strs[1] \o sep \o Join(Tail(strs), sep)

\* strconv.FormatBool
FormatBool(b) == IF b THEN "true" ELSE "false"

\* fmt.Sprintf("%+v", v) for the values that occur as map keys and struct fields
RECURSIVE FmtPlusV(_)
\* faulty variant: a struct is formatted with %v, without the names of its fields
FmtV(v) ==
    CASE v.t = "string" -> v.s
      [] v.t = "bool" -> FormatBool(v.b)
      [] v.t \in SignedTypes \cup NarrowUnsignedTypes \cup WideUnsignedTypes \cup {"defined"} ->
            FormatInt(v.n)
      [] v.t \in {"float32", "float64"} -> v.s
      [] v.t = "struct" ->
            "{" \o Join([i \in 1..Len(v.kvs) |-> FmtPlusV(v.kvs[i].val)], " ") \o "}"
      [] v.t \in {"chan", "func"} -> "0xc000010000"
      [] OTHER -> v.s

FmtPlusV(v) ==
    CASE v.t = "string" -> v.s
      [] v.t = "bool" -> FormatBool(v.b)
      [] v.t \in SignedTypes \cup NarrowUnsignedTypes \cup WideUnsignedTypes \cup {"defined"} ->
            FormatInt(v.n)
      [] v.t \in {"float32", "float64"} -> v.s
      [] v.t = "struct" ->
            "{" \o Join([i \in 1..Len(v.kvs) |->
                            v.kvs[i].key.s \o ":" \o FmtPlusV(v.kvs[i].val)], " ") \o "}"
      [] v.t \in {"chan", "func"} -> "0xc000010000"
      [] OTHER -> v.s

\* fmt.Sprint of a []byte
SprintBytes(s) ==
    CASE s = "" -> "[]"
      [] s = "abcd" -> "[97 98 99 100]"
      [] OTHER -> "[bytes " \o s \o "]"

\* log.Value.String and log.KeyValue.String
RECURSIVE ValueString(_)
ValueString(v) ==
    CASE v.kind = "String" -> v.s
      [] v.kind = "Int64" -> FormatInt(v.n)
      [] v.kind = "Float64" -> v.s
      [] v.kind = "Bool" -> FormatBool(v.b)
      [] v.kind = "Bytes" -> SprintBytes(v.s)
      [] v.kind = "Slice" ->
            "[" \o Join([i \in 1..Len(v.items) |-> ValueString(v.items[i])], " ") \o "]"
      [] v.kind = "Map" ->
            "[" \o Join([i \in 1..Len(v.kvs) |->
                            v.kvs[i].Key \o ":" \o ValueString(v.kvs[i].Value)], " ") \o "]"
      [] OTHER -> "<nil>"

(***************************************************************************)
(* convertUintValue and convertAttribute, converters.go.                   *)
(***************************************************************************)
\* faulty variant: the overflow check is missing
convertUintValueUnchecked(v) == Int64Value(Uint64ToInt64(v))

convertUintValue(v) ==
    IF MagGT(v, MaxInt64)
    THEN StringValue(FormatUint(v))
    ELSE Int64Value(Uint64ToInt64(v))

\* float64(val) of a float32: exact, so the text changes unless the value is a
\* binary fraction
ExactFloat32 == {"0.5", "20", "3"}
Float32ToFloat64(f) ==
    IF f \in ExactFloat32 THEN f ELSE "float64(float32(" \o f \o "))"

\* the orders in which a range over a map of n entries can visit them
RECURSIVE PermsOf(_)
PermsOf(S) ==
    IF S = {} THEN {<<>>}
    ELSE UNION {{<<x>> \o q : q \in PermsOf(S \ {x})} : x \in S}

Perms(n) == PermsOf(1..n)

\* one element from each set of a sequence of sets
RECURSIVE Choices(_)
Choices(sets) ==
    IF Len(sets) = 0 THEN {<<>>}
    ELSE {<<h>> \o t : h \in Head(sets), t \in Choices(Tail(sets))}

\* a call whose recursive calls had these outcomes returns value, unless one panicked
Unless(outcomes, value) ==
    IF \E i \in 1..Len(outcomes) : outcomes[i].kind = "panic"
    THEN outcomes[CHOOSE i \in 1..Len(outcomes) :
                    /\ outcomes[i].kind = "panic"
                    /\ \A j \in 1..(i - 1) : outcomes[j].kind # "panic"]
    ELSE value

\* the key of a map entry: k.String() for a string key, fmt.Sprintf("%+v") otherwise
MapKey(k) == IF k.t = "string" THEN k.s ELSE FmtPlusV(k)

\* the outcomes of convertAttribute(v): one, unless v holds a map of two or more
\* entries, whose iteration order Go leaves open
RECURSIVE convertAttribute(_)
convertAttribute(v) ==
    CASE v.t = "bool" -> {BoolValue(v.b)}
      [] v.t = "string" -> {StringValue(v.s)}
      [] v.t \in SignedTypes -> {Int64Value(v.n)}
      [] v.t \in WideUnsignedTypes -> {convertUintValue(v.n)}
      [] v.t \in NarrowUnsignedTypes -> {Int64Value(v.n)}
      [] v.t = "float32" -> {Float64Value(Float32ToFloat64(v.s))}
      [] v.t = "float64" -> {Float64Value(v.s)}
      [] v.t \in {"duration", "time"} -> {Int64Value(v.n)}
      [] v.t = "complex64" ->
            {MapValue(<<KeyValue("r", Float64Value(Float32ToFloat64(v.items[1].s))),
                        KeyValue("i", Float64Value(Float32ToFloat64(v.items[2].s)))>>)}
      [] v.t = "complex128" ->
            {MapValue(<<KeyValue("r", Float64Value(v.items[1].s)),
                        KeyValue("i", Float64Value(v.items[2].s))>>)}
      [] v.t = "bytes" -> {BytesValue(v.s)}
      [] v.t = "error" -> {StringValue(v.s)}
      \* case error matches a nil *T too: val.Error() runs on the nil receiver
      [] v.t = "nilerrptr" ->
            IF v.b THEN {Panicked("nil pointer dereference")} ELSE {StringValue(v.s)}
      [] v.t = "nil" -> {EmptyValue}
      [] v.t = "struct" -> {StringValue(FmtPlusV(v))}
      [] v.t \in {"slice", "array"} ->
            {Unless(c, SliceValue(c)) :
                c \in Choices([i \in 1..Len(v.items) |-> convertAttribute(v.items[i])])}
      [] v.t = "map" ->
            UNION {
                {Unless(c, MapValue([i \in 1..Len(c) |->
                                        KeyValue(MapKey(v.kvs[p[i]].key), c[i])])) :
                    c \in Choices([i \in 1..Len(v.kvs) |-> convertAttribute(v.kvs[p[i]].val)])} :
                p \in Perms(Len(v.kvs))}
      [] v.t = "ptr" ->
            IF Len(v.items) = 0 THEN {EmptyValue} ELSE convertAttribute(v.items[1])
      [] OTHER -> {StringValue("unhandled: (" \o v.s \o ") " \o FmtPlusV(v))}

(***************************************************************************)
(* attribute.Value and convertLogToAttribute, converters.go.               *)
(***************************************************************************)
AttrTypes == {"BOOL", "INT64", "FLOAT64", "STRING"}

AttrVal(t, b, s, n) == [type |-> t, b |-> b, s |-> s, n |-> n]
AttrStringValue(s) == AttrVal("STRING", FALSE, s, Zero)
AttrFloat64Value(f) == AttrVal("FLOAT64", FALSE, f, Zero)
AttrInt64Value(n) == AttrVal("INT64", FALSE, "", n)
AttrBoolValue(b) == AttrVal("BOOL", b, "", Zero)
AttrInvalid == AttrVal("INVALID", FALSE, "", Zero)

\* faulty variant: containers are bridged by element count instead of by their text
convertLogToAttributeLossy(a) ==
    CASE a.kind = "String" -> AttrStringValue(a.s)
      [] a.kind = "Float64" -> AttrFloat64Value(a.s)
      [] a.kind = "Int64" -> AttrInt64Value(a.n)
      [] a.kind = "Bool" -> AttrBoolValue(a.b)
      [] a.kind = "Bytes" -> AttrStringValue(SprintBytes(a.s))
      [] a.kind = "Slice" -> AttrInt64Value(Small(Len(a.items)))
      [] a.kind = "Map" -> AttrInt64Value(Small(Len(a.kvs)))
      [] OTHER -> AttrInvalid

convertLogToAttribute(a) ==
    CASE a.kind = "String" -> AttrStringValue(a.s)
      [] a.kind = "Float64" -> AttrFloat64Value(a.s)
      [] a.kind = "Int64" -> AttrInt64Value(a.n)
      [] a.kind = "Bool" -> AttrBoolValue(a.b)
      [] a.kind = "Bytes" -> AttrStringValue(a.s)
      [] a.kind = "Slice" -> AttrStringValue(ValueString(a))
      [] a.kind = "Map" -> AttrStringValue(ValueString(a))
      [] a.kind = "Empty" -> AttrStringValue("")
      [] OTHER -> AttrStringValue(a.s)

(***************************************************************************)
(* Inputs of the converters.                                               *)
(***************************************************************************)
MinInt64 == Z(1, 92233, 7203685, 4775808)
TwoTo63 == Z(0, 92233, 7203685, 4775808)
TwoTo63Plus1 == Z(0, 92233, 7203685, 4775809)
MaxUint64 == Z(0, 184467, 4407370, 9551615)
MaxUint32 == Z(0, 0, 429, 4967295)
MaxInt32 == Z(0, 0, 214, 7483647)
MinInt32 == Z(1, 0, 214, 7483648)

IntegerInputs ==
    {GoInt("int8", Small(i)) : i \in {-128, -1, 0, 10, 127}}
    \cup {GoInt("int16", Small(i)) : i \in {-32768, 10, 32767}}
    \cup {GoInt("int32", n) : n \in {MinInt32, Small(10), MaxInt32}}
    \cup {GoInt(t, n) : t \in {"int", "int64"},
                        n \in {MinInt64, Small(-1), Zero, Small(10), MaxInt64}}
    \cup {GoInt("uint8", Small(i)) : i \in {0, 10, 255}}
    \cup {GoInt("uint16", Small(i)) : i \in {10, 65535}}
    \cup {GoInt("uint32", n) : n \in {Small(10), MaxUint32}}
    \cup {GoInt(t, n) : t \in WideUnsignedTypes,
                        n \in {Zero, Small(10), MaxInt64, TwoTo63, TwoTo63Plus1, MaxUint64}}

ScalarInputs ==
    {GoBool(TRUE), GoBool(FALSE), GoString("test"), GoString(""),
     GoFloat("float32", "10.222"), GoFloat("float32", "0.5"), GoFloat("float64", "10.1"),
     GoInt("duration", Z(0, 0, 100, 0)), GoInt("time", Z(0, 17307, 3920000, 0)),
     GoComplex("complex64", "20", "3"), GoComplex("complex128", "20.5", "3"),
     GoBytes("abcd"), GoBytes(""), GoError("test"), GoError(""),
     GoNilErrPtr(TRUE, ""), GoNilErrPtr(FALSE, "nil error"), GoNil,
     GoStruct("main.user", <<Entry(GoString("Name"), GoString("x")),
                             Entry(GoString("Age"), GoInt("int", Small(1)))>>),
     GoStruct("main.empty", <<>>),
     GoOpaque("chan", "chan int"), GoOpaque("func", "func()"),
     GoDefined("zerolog.Level", Small(3))}

\* the values that occur inside containers
ElemBase == {GoInt("int", Small(1)), GoString("a")}

RECURSIVE Elems(_)
Elems(d) ==
    IF d = 0 THEN ElemBase
    ELSE LET inner == Elems(d - 1)
         IN  ElemBase \cup {GoNilPtr}
             \cup {GoSlice(<<e>>) : e \in inner}
             \cup {GoPtr(e) : e \in inner}
             \cup {GoMap(<<Entry(GoString("a"), e)>>) : e \in inner}

\* the sequences over S of a length up to n
RECURSIVE SeqsUpTo(_, _)
SeqsUpTo(S, n) ==
    IF n = 0 THEN {<<>>}
    ELSE LET shorter == SeqsUpTo(S, n - 1)
         IN  shorter \cup {Append(q, e) : q \in {r \in shorter : Len(r) = n - 1}, e \in S}

MapKeyInputs == <<GoString("a"), GoString("b"), GoInt("int64", Small(10)), GoFloat("float32", "20.1")>>

\* maps of up to n entries: strictly increasing picks of MapKeyInputs, values from S
MapInputs(S, n) ==
    LET keyPicks == {q \in SeqsUpTo(1..Len(MapKeyInputs), n) :
                        \A i \in 1..(Len(q) - 1) : q[i] < q[i + 1]}
        valPicks == SeqsUpTo(S, n)
    IN  {GoMap([i \in 1..Len(pick[1]) |-> Entry(MapKeyInputs[pick[1][i]], pick[2][i])]) :
            pick \in {pr \in keyPicks \X valPicks : Len(pr[1]) = Len(pr[2])}}

ContainerInputs ==
    {GoSlice(q) : q \in SeqsUpTo(Elems(MaxDepth - 1), MaxLen)}
    \cup {GoArray(q) : q \in SeqsUpTo(ElemBase, MaxLen)}
    \cup MapInputs(Elems(MaxDepth - 2), MaxLen)
    \cup {GoPtr(e) : e \in Elems(MaxDepth - 1) \cup ScalarInputs}
    \cup {GoNilPtr}
    \cup {GoSlice(<<GoInt("int", Small(1)), GoInt("int", Small(2)), GoInt("int", Small(3))>>),
          GoSlice(<<GoInt("int", Small(1)), GoNilErrPtr(TRUE, "")>>),
          GoMap(<<Entry(GoString("a"), GoNilErrPtr(TRUE, ""))>>),
          GoMap(<<Entry(GoInt("int", Small(1)), GoString("a")),
                  Entry(GoString("1"), GoString("b"))>>),
          GoPtr(GoPtr(GoNilErrPtr(TRUE, "")))}

Inputs == IntegerInputs \cup ScalarInputs \cup ContainerInputs

Levels == -128..127

(***************************************************************************)
(* The converters' specification: an input is drawn, then converted, then  *)
(* the converted value is bridged; or a level is drawn and converted.      *)
(***************************************************************************)
NoSeverity == <<0, "">>

\* no logger has been constructed with New
NoLogger ==
    /\ writers = <<>>
    /\ applied = <<>>
    /\ built = FALSE
    /\ failed = FALSE
    /\ sinks = <<>>
    /\ routines = <<>>
    /\ heap = <<>>
    /\ stack = <<>>
    /\ walk = "idle"
    /\ loggerContext = "parsable"
    /\ pending = <<>>

HookIdle ==
    /\ cfg = [attachSpanError |-> FALSE, attachSpanEvent |-> FALSE, source |-> FALSE,
              setSpanError |-> FALSE, setSpanErrorLevel |-> ErrorLevel]
    /\ calls = <<>>
    /\ spanEvents = <<>>
    /\ spanErrors = <<>>
    /\ spanStatus = "Unset"
    /\ records = <<>>
    /\ last = "idle"
    /\ ctx = <<>>
    /\ spansStarted = 0
    /\ NoLogger

InitConv ==
    /\ \/ phase = "input" /\ in \in Inputs /\ lvl = InfoLevel
       \/ phase = "level" /\ in = GoNil /\ lvl \in Levels
    /\ out = EmptyValue
    /\ prev = EmptyValue
    /\ attr = AttrInvalid
    /\ sev = NoSeverity
    /\ HookIdle

\* out := convertAttribute(in)
Convert ==
    /\ phase = "input"
    /\ out' \in convertAttribute(in)
    /\ phase' = "converted"
    /\ UNCHANGED <<in, prev, attr, lvl, sev, hookVars>>

\* attr := convertLogToAttribute(out), for a call that returned
Bridge ==
    /\ phase = "converted"
    /\ out.kind # "panic"
    /\ attr' = convertLogToAttribute(out)
    /\ phase' = "bridged"
    /\ UNCHANGED <<in, out, prev, lvl, sev, hookVars>>

\* faulty variant: the converter hands out entries it kept from the call before
ReconvertStateful ==
    /\ phase = "converted"
    /\ prev' = out
    /\ out' \in {IF o.kind = "Map" THEN MapValue(o.kvs \o out.kvs) ELSE o :
                    o \in convertAttribute(in)}
    /\ phase' = "reconverted"
    /\ UNCHANGED <<in, attr, lvl, sev, hookVars>>

\* prev := out; out := convertAttribute(in): the same value converted once more
Reconvert ==
    /\ phase = "converted"
    /\ prev' = out
    /\ out' \in convertAttribute(in)
    /\ phase' = "reconverted"
    /\ UNCHANGED <<in, attr, lvl, sev, hookVars>>

\* sev := convertLevel(lvl)
Severity ==
    /\ phase = "level"
    /\ sev' = convertLevel(lvl)
    /\ phase' = "levelled"
    /\ UNCHANGED <<in, out, prev, attr, lvl, hookVars>>

NextConv == Convert \/ Reconvert \/ Bridge \/ Severity

SpecConv == InitConv /\ [][NextConv]_vars

(***************************************************************************)
(* The hook, hook.go.  A fired event is what zerolog hands to Hook.Run:    *)
(* whether the event is enabled, its level, its message, and its buffer,   *)
(* which holds the level field written by zerolog followed by the fields   *)
(* the caller added.  The buffer either parses as JSON (bufOK) into the    *)
(* field set, whose values are then string, float64, bool, nil, []any or   *)
(* map[string]any, or it does not.  The event's context carries the logger *)
(* with this hook and an active span.  The record's timestamp is left out. *)
(***************************************************************************)
Field(k, v) == [key |-> k, val |-> v]

JSONNumber(text) == GoFloat("float64", text)

\* the fields a caller adds to an event
FieldSets ==
    {<<>>,
     <<Field("k", JSONNumber("3"))>>,
     <<Field("error", GoString("boom"))>>,
     <<Field("error", GoString(""))>>,
     <<Field("error", GoString("boom")), Field("stack", GoString("trace"))>>,
     <<Field("stack", GoString("trace"))>>,
     <<Field("error", JSONNumber("42"))>>,
     <<Field("error", GoString("boom")),
       Field("stack", GoSlice(<<GoMap(<<Entry(GoString("func"), GoString("main"))>>)>>))>>,
     <<Field("caller", GoString("hook.go:42")), Field("k", GoString("v"))>>,
     <<Field("caller", GoString("nowhere")), Field("k", GoString("v"))>>,
     <<Field("caller", JSONNumber("7")), Field("k", GoString("v"))>>,
     <<Field("arr", GoSlice(<<JSONNumber("1"), GoString("a")>>)),
       Field("obj", GoMap(<<Entry(GoString("x"), GoNil)>>))>>}

\* the field sets fired at every level of EventLevels; the others are fired at
\* ErrorLevel
LevelFieldSets == {<<Field("error", GoString("boom"))>>}

EventLevels == {InfoLevel, ErrorLevel, NoLevel}
Messages == {"test log"}
Thresholds == {ErrorLevel, PanicLevel}

Events ==
    [enabled : {TRUE}, level : EventLevels, msg : Messages, bufOK : {TRUE},
     fields : LevelFieldSets]
    \cup [enabled : {TRUE}, level : {ErrorLevel}, msg : Messages, bufOK : {TRUE},
          fields : FieldSets]
    \cup [enabled : {TRUE}, level : {InfoLevel}, msg : Messages, bufOK : {FALSE},
          fields : {<<>>}]
    \cup [enabled : {FALSE}, level : {DebugLevel}, msg : Messages, bufOK : {TRUE},
          fields : {<<>>}]

\* zerolog.Level.String
LevelString(level) ==
    CASE level = TraceLevel -> "trace"
      [] level = DebugLevel -> "debug"
      [] level = InfoLevel  -> "info"
      [] level = WarnLevel  -> "warn"
      [] level = ErrorLevel -> "error"
      [] level = FatalLevel -> "fatal"
      [] level = PanicLevel -> "panic"
      [] level = Disabled   -> "disabled"
      [] level = NoLevel    -> ""
      [] OTHER              -> ToString(level)

\* the head of the buffer: zerolog writes the level field, except at NoLevel
LevelField(level) ==
    IF level = NoLevel THEN <<>> ELSE <<Field("level", GoString(LevelString(level)))>>

\* json.Unmarshal of the buffer into logData: a buffer that does not parse
\* leaves logData nil
Unmarshal(e) ==
    IF e.bufOK
    THEN [err |-> FALSE, logData |-> LevelField(e.level) \o e.fields]
    ELSE [err |-> TRUE, logData |-> <<>>]

\* extractSource: "<filepath>:<line>" parsed into its two parts
extractSource(sourcePath) ==
    CASE sourcePath = "hook.go:42" -> [err |-> FALSE, filepath |-> "hook.go", line |-> 42]
      [] OTHER -> [err |-> TRUE, filepath |-> "", line |-> 0]

ZeroKeyValue == KeyValue("", EmptyValue)

\* log.Value.Empty
Empty(v) == v.kind = "Empty"

\* faulty variant: the caller field is converted like any other field
CallerCaseGeneric(h, acc, f) ==
    {[acc EXCEPT !.logAttributes = Append(@, KeyValue(f.key, c))] :
        c \in convertAttribute(f.val)}

\* case zerolog.CallerFieldName, hook.go lines 77-91
CallerCase(h, acc, f) ==
    IF f.val.t # "string" \/ ~h.source
    THEN {acc}
    ELSE LET src == extractSource(f.val.s)
         IN  IF src.err
             THEN {acc}
             ELSE {[acc EXCEPT !.logAttributes = @ \o
                        <<KeyValue("code.filepath", StringValue(src.filepath)),
                          KeyValue("code.lineno", Int64Value(Small(src.line)))>>]}

\* one iteration of the range over logData, hook.go lines 63-99
LoopBody(h, acc, f) ==
    CASE f.key = "error" ->
            IF f.val.t = "string"
            THEN {[acc EXCEPT !.errorAttr = KeyValue("exception.message", StringValue(f.val.s))]}
            ELSE {[acc EXCEPT !.panicked = TRUE]}
      [] f.key = "stack" ->
            IF f.val.t = "string"
            THEN {[acc EXCEPT !.stackAttr = KeyValue("exception.stacktrace", StringValue(f.val.s))]}
            ELSE {[acc EXCEPT !.panicked = TRUE]}
      [] f.key = "caller" -> CallerCase(h, acc, f)
      [] OTHER ->
            {IF c.kind = "panic"
             THEN [acc EXCEPT !.panicked = TRUE]
             ELSE [acc EXCEPT !.logAttributes = Append(@, KeyValue(f.key, c))] :
                c \in convertAttribute(f.val)}

\* the range over logData in the order `fields`; a panic ends it
RECURSIVE Loop(_, _, _)
Loop(h, acc, fields) ==
    IF acc.panicked \/ Len(fields) = 0 THEN {acc}
    ELSE UNION {Loop(h, a, Tail(fields)) : a \in LoopBody(h, acc, Head(fields))}

\* the span event of hook.go lines 102-115
SpanEvent(msg, logAttributes) ==
    [name |-> msg,
     attrs |-> [i \in 1..Len(logAttributes) |->
                    [Key |-> logAttributes[i].Key,
                     Value |-> convertLogToAttribute(logAttributes[i].Value)]]]

\* the span status step: when span-status-on-error is enabled and the level is at
\* or above the configured threshold, the span's status is set to Error
SetSpanStatus(h, level) == h.setSpanError /\ level >= h.setSpanErrorLevel

\* hook.go lines 101-133, after the range over logData
Finish(h, msg, acc, setStatus) ==
    IF acc.panicked
    THEN [panicked |-> TRUE, logAttributes |-> <<>>, events |-> <<>>, errors |-> <<>>,
          setStatus |-> FALSE]
    ELSE [panicked |-> FALSE,
          logAttributes |->
              acc.logAttributes
              \o (IF ~Empty(acc.errorAttr.Value) THEN <<acc.errorAttr>> ELSE <<>>)
              \o (IF ~Empty(acc.stackAttr.Value) THEN <<acc.stackAttr>> ELSE <<>>),
          events |->
              IF h.attachSpanEvent THEN <<SpanEvent(msg, acc.logAttributes)>> ELSE <<>>,
          errors |->
              IF h.attachSpanError /\ ~Empty(acc.errorAttr.Value)
              THEN <<[msg |-> ValueString(acc.errorAttr.Value),
                      stackTrace |-> ~Empty(acc.stackAttr.Value)]>>
              ELSE <<>>,
          setStatus |-> setStatus]

LoopStart ==
    [errorAttr |-> ZeroKeyValue, stackAttr |-> ZeroKeyValue, logAttributes |-> <<>>,
     panicked |-> FALSE]

\* faulty variant: the span is marked failed at ERROR or above whatever the configuration
processSpanAttrsStatusAtError(h, msg, level, logData) ==
    UNION {{Finish(h, msg, acc, level >= ErrorLevel) :
                acc \in Loop(h, LoopStart, [i \in 1..Len(logData) |-> logData[p[i]]])} :
            p \in Perms(Len(logData))}

\* processSpanAttrs: its outcomes, one for each order in which the range visits
\* logData
processSpanAttrs(h, msg, level, logData) ==
    UNION {{Finish(h, msg, acc, SetSpanStatus(h, level)) :
                acc \in Loop(h, LoopStart, [i \in 1..Len(logData) |-> logData[p[i]]])} :
            p \in Perms(Len(logData))}

\* faulty variant: the identifiers are those of the outermost span of the context
SpanContextOfRoot(c) ==
    IF c = <<>> THEN [valid |-> FALSE, traceID |-> "", spanID |-> ""]
    ELSE [valid |-> TRUE, traceID |-> "trace" \o c[1], spanID |-> c[1]]

\* trace.SpanFromContext(ctx).SpanContext(): the identifiers of the innermost span
\* of the context, which belongs to the trace its outermost span started
SpanContext(c) ==
    IF c = <<>> THEN [valid |-> FALSE, traceID |-> "", spanID |-> ""]
    ELSE [valid |-> TRUE, traceID |-> "trace" \o c[1], spanID |-> c[Len(c)]]

\* sendLogMessage: the record handed to otelLogger.Emit with the context, whose
\* span identifiers the record carries when the span is valid
sendLogMessage(c, msg, level, logAttributes) ==
    LET severity == convertLevel(level)
        span == SpanContext(c)
    IN  [body |-> msg, severity |-> severity[1], severityText |-> severity[2],
         attrs |-> logAttributes,
         traceID |-> IF span.valid THEN span.traceID ELSE "",
         spanID |-> IF span.valid THEN span.spanID ELSE ""]

World == [calls |-> calls, spanEvents |-> spanEvents, spanErrors |-> spanErrors,
          spanStatus |-> spanStatus, records |-> records]

\* whether the last call of the hook panicked
Aborted(w) == Len(w.calls) > 0 /\ w.calls[Len(w.calls)].panicked

\* Hook.Run lines 50-54 on an enabled event with field set logData
Fire(w, h, level, msg, logData, secondary) ==
    {LET call == [level |-> level, msg |-> msg, logData |-> logData,
                  secondary |-> secondary, panicked |-> o.panicked, ctx |-> ctx]
     IN  IF o.panicked
         THEN [w EXCEPT !.calls = Append(@, call)]
         ELSE [calls |-> Append(w.calls, call),
               spanEvents |-> w.spanEvents \o o.events,
               spanErrors |-> w.spanErrors \o o.errors,
               spanStatus |-> IF o.setStatus THEN "Error" ELSE w.spanStatus,
               records |-> Append(w.records, sendLogMessage(ctx, msg, level, o.logAttributes))] :
        o \in processSpanAttrs(h, msg, level, logData)}

UnmarshalError == "invalid character in the attribute buffer"

\* the field set of the event Hook.Run logs through zlog.Ctx when the buffer does
\* not parse, hook.go lines 43-47
SecondaryFields(level, msg) ==
    LevelField(ErrorLevel)
    \o <<Field("error", GoString(UnmarshalError)),
         Field("log.level", GoString(LevelString(level))),
         Field("log.message", GoString(msg))>>

SecondaryMessage == "could not unmarshal the zerolog event's attribute buffer"

\* the number of events fired by callers
Fired(w) == Cardinality({i \in 1..Len(w.calls) : ~w.calls[i].secondary})

Init ==
    /\ cfg \in [attachSpanError : BOOLEAN, attachSpanEvent : BOOLEAN, source : BOOLEAN,
                setSpanError : BOOLEAN, setSpanErrorLevel : Thresholds]
    /\ ~cfg.setSpanError => cfg.setSpanErrorLevel = ErrorLevel
    /\ calls = <<>>
    /\ spanEvents = <<>>
    /\ spanErrors = <<>>
    /\ spanStatus = "Unset"
    /\ records = <<>>
    /\ last = "idle"
    /\ ctx = <<"1">>
    /\ spansStarted = 1
    /\ NoLogger
    /\ in = GoNil
    /\ out = EmptyValue
    /\ prev = EmptyValue
    /\ attr = AttrInvalid
    /\ lvl = InfoLevel
    /\ sev = NoSeverity
    /\ phase = "idle"

\* faulty variant: a buffer that does not parse ends Run after the secondary event
RunBodyReturnOnError(e) ==
    LET u == Unmarshal(e)
    IN  \E w2 \in (IF u.err
                   THEN Fire(World, cfg, ErrorLevel, SecondaryMessage,
                             SecondaryFields(e.level, e.msg), TRUE)
                   ELSE Fire(World, cfg, e.level, e.msg, u.logData, FALSE)) :
            /\ calls' = w2.calls
            /\ spanEvents' = w2.spanEvents
            /\ spanErrors' = w2.spanErrors
            /\ spanStatus' = w2.spanStatus
            /\ records' = w2.records

\* the effect of lines 39-54 of Hook.Run on an enabled event
RunBody(e) ==
    LET u == Unmarshal(e)
    IN  \E w1 \in (IF u.err
                   THEN Fire(World, cfg, ErrorLevel, SecondaryMessage,
                             SecondaryFields(e.level, e.msg), TRUE)
                   ELSE {World}) :
        \E w2 \in (IF Aborted(w1)
                   THEN {w1}
                   ELSE Fire(w1, cfg, e.level, e.msg, u.logData, FALSE)) :
            /\ calls' = w2.calls
            /\ spanEvents' = w2.spanEvents
            /\ spanErrors' = w2.spanErrors
            /\ spanStatus' = w2.spanStatus
            /\ records' = w2.records

\* faulty variant: the early return for an event that is not enabled is missing
RunWithoutEnabledCheck(e) ==
    /\ Fired(World) < MaxEvents
    /\ RunBody(e)
    /\ last' = IF e.enabled THEN "fired" ELSE "suppressed"
    /\ UNCHANGED <<cfg, ctx, spansStarted, loggerVars, convVars, routines, walkVars, reportVars>>

\* Hook.Run(e, level, msg)
Run(e) ==
    /\ Fired(World) < MaxEvents
    /\ IF ~e.enabled
       THEN UNCHANGED <<calls, spanEvents, spanErrors, spanStatus, records>>
       ELSE RunBody(e)
    /\ last' = IF e.enabled THEN "fired" ELSE "suppressed"
    /\ UNCHANGED <<cfg, ctx, spansStarted, loggerVars, convVars, routines, walkVars, reportVars>>

Next == \E e \in Events : Run(e)

Spec == Init /\ [][Next]_vars

(***************************************************************************)
(* Events fired inside and outside spans: the caller starts a span with    *)
(* tracer.Start(ctx, name), which puts it in the context, and ends it when *)
(* the enclosing function returns; the hook is a plain Hook{}.             *)
(***************************************************************************)
InitTrace ==
    /\ HookIdle
    /\ in = GoNil
    /\ out = EmptyValue
    /\ prev = EmptyValue
    /\ attr = AttrInvalid
    /\ lvl = InfoLevel
    /\ sev = NoSeverity
    /\ phase = "idle"

\* ctx, span = tracer.Start(ctx, name)
StartSpan ==
    /\ spansStarted < MaxSpans
    /\ spansStarted' = spansStarted + 1
    /\ ctx' = Append(ctx, ToString(spansStarted + 1))
    /\ UNCHANGED <<cfg, calls, spanEvents, spanErrors, spanStatus, records, last,
                   loggerVars, convVars, routines, walkVars, reportVars>>

\* defer span.End(), and the return to the caller's context
EndSpan ==
    /\ ctx # <<>>
    /\ ctx' = SubSeq(ctx, 1, Len(ctx) - 1)
    /\ UNCHANGED <<cfg, calls, spanEvents, spanErrors, spanStatus, records, last,
                   spansStarted, loggerVars, convVars, routines, walkVars, reportVars>>

\* the events fired in the contexts above
TraceEvents == {e \in Events : e.level = InfoLevel}

NextTrace == StartSpan \/ EndSpan \/ \E e \in TraceEvents : Run(e)

SpecTrace == InitTrace /\ [][NextTrace]_vars

(***************************************************************************)
(* Construction: New(ctx, name, options...) applies its options to a       *)
(* config, builds a logger that writes to config.writers and runs the      *)
(* hook, and returns the context that carries it.  An event logged through *)
(* that logger runs the hook and is then rendered once and written to      *)
(* every destination.                                                      *)
(***************************************************************************)
WriterNames == {"buf1", "buf2", "buf3"}

\* faulty variant: a writer added later replaces the one added before
WithWriterReplacing(c, w) == <<w>>

\* WithWriter(w).apply(c): config.writers with w added at the end
WithWriter(c, w) == Append(c, w)

InitNew ==
    /\ cfg = [attachSpanError |-> TRUE, attachSpanEvent |-> TRUE, source |-> FALSE,
              setSpanError |-> FALSE, setSpanErrorLevel |-> ErrorLevel]
    /\ calls = <<>>
    /\ spanEvents = <<>>
    /\ spanErrors = <<>>
    /\ spanStatus = "Unset"
    /\ records = <<>>
    /\ last = "idle"
    /\ ctx = <<"1">>
    /\ spansStarted = 1
    /\ NoLogger
    /\ in = GoNil
    /\ out = EmptyValue
    /\ prev = EmptyValue
    /\ attr = AttrInvalid
    /\ lvl = InfoLevel
    /\ sev = NoSeverity
    /\ phase = "idle"

\* one WithWriter option of the call of New is applied to the config
ApplyWithWriter(w) ==
    /\ ~built
    /\ Len(applied) < MaxWriters
    /\ writers' = WithWriter(writers, w)
    /\ applied' = Append(applied, w)
    /\ UNCHANGED <<built, failed, sinks, cfg, calls, spanEvents, spanErrors, spanStatus,
                   records, last, ctx, spansStarted, convVars, routines, walkVars, reportVars>>

\* faulty variant: New reports a failure when no writer was configured
NewRequiringWriter ==
    /\ ~built
    /\ built' = TRUE
    /\ failed' = (writers = <<>>)
    /\ sinks' = [i \in 1..Len(writers) |-> <<>>]
    /\ UNCHANGED <<writers, applied, cfg, calls, spanEvents, spanErrors, spanStatus,
                   records, last, ctx, spansStarted, convVars, routines, walkVars, reportVars>>

\* ctx := New(ctx, name, options...): it returns the context alone, with any
\* number of writers
New ==
    /\ ~built
    /\ built' = TRUE
    /\ failed' = FALSE
    /\ sinks' = [i \in 1..Len(writers) |-> <<>>]
    /\ UNCHANGED <<writers, applied, cfg, calls, spanEvents, spanErrors, spanStatus,
                   records, last, ctx, spansStarted, convVars, routines, walkVars, reportVars>>

\* the line a destination receives for an event
Render(call) ==
    (IF call.level = ErrorLevel THEN "ERR " ELSE "INF ") \o call.msg

\* the events logged through the logger New returned
LoggedEvents == {e \in Events : e.enabled /\ e.level = InfoLevel}

\* log.Ctx(ctx).Info()...Msg(msg): the hook runs, then the event is written to
\* every destination; the secondary event of a buffer that does not parse is
\* logged the same way, before
Log(e) ==
    /\ built
    /\ ~failed
    /\ Fired(World) < MaxEvents
    /\ RunBody(e)
    /\ last' = "fired"
    /\ LET new == SubSeq(calls', Len(calls) + 1, Len(calls'))
           written == SelectSeq(new, LAMBDA c : ~c.panicked)
           lines == [k \in 1..Len(written) |-> Render(written[k])]
       IN  sinks' = [i \in 1..Len(sinks) |-> sinks[i] \o lines]
    /\ UNCHANGED <<writers, applied, built, failed, cfg, ctx, spansStarted, convVars, routines, walkVars, reportVars>>

NextNew == (\E w \in WriterNames : ApplyWithWriter(w)) \/ New \/ (\E e \in LoggedEvents : Log(e))

SpecNew == InitNew /\ [][NextNew]_vars

(***************************************************************************)
(* Claims about the converters, checked under SpecConv.                    *)
(***************************************************************************)
Converted == phase \in {"converted", "bridged"}

IsNilInput(v) == v.t \in {"nil", "nilerrptr"} \/ (v.t = "ptr" /\ Len(v.items) = 0)

\* C1: convertAttribute is total: for every input it returns a canonical value and
\* never panics, and a nil pointer or nil interface yields Empty.
C1_ConvertAttributeTotal ==
    Converted =>
        /\ out.kind \in Kinds
        /\ IsNilInput(in) => out.kind = "Empty"

\* the decimal digits of the unsigned inputs above math.MaxInt64
DecimalDigits(n) ==
    CASE n = TwoTo63 -> "9223372036854775808"
      [] n = TwoTo63Plus1 -> "9223372036854775809"
      [] n = MaxUint64 -> "18446744073709551615"
      [] OTHER -> "not above MaxInt64"

IntegerTypes == SignedTypes \cup NarrowUnsignedTypes \cup WideUnsignedTypes

\* C3: a signed integer, and an unsigned integer of at most MaxInt64, converts to
\* Int64 of the same value; a uint, uint64 or uintptr above MaxInt64 converts to the
\* String of its decimal digits; no unsigned input converts to a negative Int64.
C3_IntegerConversion ==
    (Converted /\ in.t \in IntegerTypes) =>
        /\ (in.t \in SignedTypes \/ ~MagGT(in.n, MaxInt64)) => out = Int64Value(in.n)
        /\ (in.t \in WideUnsignedTypes /\ MagGT(in.n, MaxInt64)) =>
                out = StringValue(DecimalDigits(in.n))
        /\ (in.t \notin SignedTypes /\ out.kind = "Int64") => out.n[1] = 0

C3_Witness ==
    /\ phase = "converted"
    /\ in = GoInt("uint64", TwoTo63)
    /\ out = StringValue("9223372036854775808")

\* log.Severity.String for the severities without a sub-level
SeverityText(n) ==
    CASE n = 1 -> "TRACE"
      [] n = 5 -> "DEBUG"
      [] n = 9 -> "INFO"
      [] n = 13 -> "WARN"
      [] n = 17 -> "ERROR"
      [] n = 21 -> "FATAL"
      [] OTHER -> "UNDEFINED"

\* C4: convertLevel maps Trace, Debug, Info, Warn, Error and Fatal to the severity
\* of the same name, Panic to (SeverityFatal, "FATAL"), every other level to
\* (SeverityInfo, "INFO"), and the number and the text always name one severity.
C4_ConvertLevel ==
    phase = "levelled" =>
        /\ lvl = -1 => sev = <<1, "TRACE">>
        /\ lvl = 0 => sev = <<5, "DEBUG">>
        /\ lvl = 1 => sev = <<9, "INFO">>
        /\ lvl = 2 => sev = <<13, "WARN">>
        /\ lvl = 3 => sev = <<17, "ERROR">>
        /\ lvl = 4 => sev = <<21, "FATAL">>
        /\ lvl = 5 => sev = <<21, "FATAL">>
        /\ lvl \notin -1..5 => sev = <<9, "INFO">>
        /\ sev[2] = SeverityText(sev[1])

C4_Witness ==
    /\ phase = "levelled"
    /\ lvl = NoLevel
    /\ sev = <<SeverityInfo, "INFO">>

\* C5: convertLogToAttribute returns a String, Float64, Int64 or Bool: these four
\* pass through with their value, Bytes becomes the String of the raw bytes, Slice
\* and Map the String of their textual representation, Empty the empty String.
C5_ConvertLogToAttribute ==
    phase = "bridged" =>
        /\ attr.type \in AttrTypes
        /\ out.kind = "Bool" => attr = AttrBoolValue(out.b)
        /\ out.kind = "String" => attr = AttrStringValue(out.s)
        /\ out.kind = "Int64" => attr = AttrInt64Value(out.n)
        /\ out.kind = "Float64" => attr = AttrFloat64Value(out.s)
        /\ out.kind = "Bytes" => attr = AttrStringValue(out.s)
        /\ out.kind \in {"Slice", "Map"} =>
                /\ attr.type = "STRING"
                /\ Len(attr.s) >= 2
        /\ out = SliceValue(<<Int64Value(Small(1)), Int64Value(Small(2)), Int64Value(Small(3))>>) =>
                attr.s = "[1 2 3]"
        /\ out = SliceValue(<<StringValue("a"), Int64Value(Small(1))>>) => attr.s = "[a 1]"
        /\ out = SliceValue(<<>>) => attr.s = "[]"
        /\ out = MapValue(<<KeyValue("a", Int64Value(Small(1))),
                            KeyValue("b", Int64Value(Small(1)))>>) => attr.s = "[a:1 b:1]"
        /\ out = MapValue(<<KeyValue("10", StringValue("a"))>>) => attr.s = "[10:a]"
        /\ out.kind = "Empty" => attr = AttrStringValue("")

C5_Witness ==
    /\ phase = "bridged"
    /\ out = MapValue(<<KeyValue("a", Int64Value(Small(1))), KeyValue("b", Int64Value(Small(1)))>>)
    /\ attr = AttrStringValue("[a:1 b:1]")

(***************************************************************************)
(* Claims about the hook, checked under Spec.  calls[i] is the i-th run of *)
(* the hook on an enabled event; a run that panicked left no record.       *)
(***************************************************************************)
HasField(logData, k) == \E i \in 1..Len(logData) : logData[i].key = k

FieldValue(logData, k) == logData[CHOOSE i \in 1..Len(logData) : logData[i].key = k].val

\* the number of attributes of a record with this key
CountKey(attrs, k) == Cardinality({i \in 1..Len(attrs) : attrs[i].Key = k})

\* the runs of the hook that returned, in order: the i-th has the i-th record
Completed == SelectSeq(calls, LAMBDA c : ~c.panicked)

\* C2: Hook.Run never panics, whatever the field set holds under "error" and
\* "stack", and the record of every enabled event is emitted.
C2_RunNeverPanics ==
    /\ \A i \in 1..Len(calls) : ~calls[i].panicked
    /\ Len(records) = Len(calls)

\* the event the span got for a run, against the record emitted for it
EventMatchesRecord(ev, rec, call) ==
    LET reserved == (IF HasField(call.logData, "error") THEN 1 ELSE 0)
                    + (IF HasField(call.logData, "stack") THEN 1 ELSE 0)
    IN  /\ ev.name = call.msg
        /\ Len(ev.attrs) = Len(rec.attrs) - reserved
        /\ \A j \in 1..Len(ev.attrs) :
                /\ ev.attrs[j].Key = rec.attrs[j].Key
                /\ ev.attrs[j].Value = convertLogToAttribute(rec.attrs[j].Value)
                /\ ev.attrs[j].Key \notin {"exception.message", "exception.stacktrace"}

\* C6: with span-event attachment enabled every enabled fired event adds exactly one
\* event to the span, named with the message, whose attributes are the bridged
\* attributes of the record without the error and stack attributes; with it
\* disabled the span gets no event.
C6_SpanEventPerEvent ==
    /\ cfg.attachSpanEvent =>
            /\ Len(spanEvents) = Len(calls)
            /\ Len(records) = Len(calls)
            /\ \A i \in 1..Len(calls) : EventMatchesRecord(spanEvents[i], records[i], calls[i])
    /\ ~cfg.attachSpanEvent => spanEvents = <<>>

\* C6 for the runs that returned: it fails only where a run panicked (C2)
C6_SpanEventPerCompletedRun ==
    /\ cfg.attachSpanEvent =>
            /\ Len(spanEvents) = Len(Completed)
            /\ Len(records) = Len(Completed)
            /\ \A i \in 1..Len(Completed) :
                    EventMatchesRecord(spanEvents[i], records[i], Completed[i])
    /\ ~cfg.attachSpanEvent => spanEvents = <<>>

\* the exceptions the span should hold for these runs
ExpectedExceptions(runs) ==
    LET withError == SelectSeq(runs, LAMBDA c : HasField(c.logData, "error"))
    IN  [i \in 1..Len(withError) |->
            [msg |-> FieldValue(withError[i].logData, "error").s,
             stackTrace |-> HasField(withError[i].logData, "stack")]]

\* C7: with span-error attachment enabled the span records exactly one exception for
\* every event with an "error" field, with the field's string as message and a stack
\* trace exactly when a "stack" field is present; otherwise it records none.
C7_SpanExceptionPerError ==
    /\ cfg.attachSpanError => spanErrors = ExpectedExceptions(calls)
    /\ ~cfg.attachSpanError => spanErrors = <<>>

\* C7 for the runs that returned: it fails only where a run panicked (C2)
C7_SpanExceptionPerCompletedRun ==
    /\ cfg.attachSpanError => spanErrors = ExpectedExceptions(Completed)
    /\ ~cfg.attachSpanError => spanErrors = <<>>

\* C8: with span-status-on-error enabled, the span's status is Error once an
\* enabled event at or above the threshold was fired, and is unchanged before.
C8_SpanStatusAtThreshold ==
    cfg.setSpanError =>
        (spanStatus = "Error" <=>
            \E i \in 1..Len(calls) : calls[i].level >= cfg.setSpanErrorLevel)

\* C8 for the runs that returned: it fails only where a run panicked (C2)
C8_SpanStatusOfCompletedRuns ==
    cfg.setSpanError =>
        (spanStatus = "Error" <=>
            \E i \in 1..Len(Completed) : Completed[i].level >= cfg.setSpanErrorLevel)

RecordCarriesError(rec, call) ==
    /\ HasField(call.logData, "error") =>
            /\ CountKey(rec.attrs, "exception.message") = 1
            /\ \E j \in 1..Len(rec.attrs) :
                    /\ rec.attrs[j].Key = "exception.message"
                    /\ rec.attrs[j].Value = StringValue(FieldValue(call.logData, "error").s)
    /\ ~HasField(call.logData, "error") => CountKey(rec.attrs, "exception.message") = 0
    /\ HasField(call.logData, "stack") =>
            /\ CountKey(rec.attrs, "exception.stacktrace") = 1
            /\ \E j \in 1..Len(rec.attrs) :
                    /\ rec.attrs[j].Key = "exception.stacktrace"
                    /\ rec.attrs[j].Value.kind = "String"
    /\ ~HasField(call.logData, "stack") => CountKey(rec.attrs, "exception.stacktrace") = 0

\* C10: the record of every event with an "error" field carries exactly one string
\* attribute with the error message, the empty message included, whatever the span
\* flags; a "stack" field is carried exactly when present.
C10_RecordCarriesError ==
    /\ Len(records) = Len(calls)
    /\ \A i \in 1..Len(calls) : RecordCarriesError(records[i], calls[i])

\* C10 for the runs that returned: it fails only where a run panicked (C2)
C10_CompletedRecordCarriesError ==
    /\ Len(records) = Len(Completed)
    /\ \A i \in 1..Len(Completed) : RecordCarriesError(records[i], Completed[i])

\* C11: an event that is not enabled makes Hook.Run a no-op: no record, no span
\* event, no exception, no change of the span status and no secondary log line.
C11_SuppressedIsNoOp ==
    [][last' = "suppressed" =>
            UNCHANGED <<calls, spanEvents, spanErrors, spanStatus, records>>]_vars

C11_Witness ==
    /\ last = "suppressed"
    /\ cfg.attachSpanEvent
    /\ cfg.attachSpanError
    /\ cfg.setSpanError
    /\ Len(records) = 1
    /\ Len(calls) = 1

\* the index in records of the record of calls[j], a run that returned
RecordOf(j) == Cardinality({i \in 1..j : ~calls[i].panicked})

NonReserved(logData) ==
    SelectSeq(logData, LAMBDA f : f.key \notin {"error", "stack", "caller"})

\* the attributes of a record that come from non-reserved fields
GenericAttrs(attrs) ==
    SelectSeq(attrs, LAMBDA a : a.Key \notin {"exception.message", "exception.stacktrace",
                                             "code.filepath", "code.lineno"})

\* the record of a run: body, severity, and one attribute per non-reserved field
RecordMatchesEvent(rec, call) ==
    LET fields == NonReserved(call.logData)
        generic == GenericAttrs(rec.attrs)
    IN  /\ rec.body = call.msg
        /\ <<rec.severity, rec.severityText>> = convertLevel(call.level)
        /\ Len(generic) = Len(fields)
        /\ \A i \in 1..Len(fields) :
                /\ CountKey(rec.attrs, fields[i].key) = 1
                /\ \E j \in 1..Len(generic) :
                        /\ generic[j].Key = fields[i].key
                        /\ generic[j].Value \in convertAttribute(fields[i].val)

\* C13: for every enabled fired event the emitted record has the message as body,
\* the severity number and text of convertLevel(level), and exactly one attribute
\* per non-reserved field, keyed by the field name with value convertAttribute of
\* the field's value.
C13_RecordOfEveryEvent ==
    /\ Len(records) = Len(calls)
    /\ \A i \in 1..Len(calls) : RecordMatchesEvent(records[i], calls[i])

\* C13 for the runs that returned: it fails only where a run panicked (C2)
C13_RecordOfCompletedRun ==
    /\ Len(records) = Len(Completed)
    /\ \A i \in 1..Len(Completed) : RecordMatchesEvent(records[i], Completed[i])

\* the attributes of a record with a code-location key
SourceAttrs(attrs) ==
    SelectSeq(attrs, LAMBDA a : a.Key \in {"code.filepath", "code.lineno"})

\* what the caller field of a run leaves in its record
CallerHandled(rec, call) ==
    LET caller == FieldValue(call.logData, "caller")
    IN  /\ CountKey(rec.attrs, "caller") = 0
        /\ IF cfg.source /\ caller = GoString("hook.go:42")
           THEN SourceAttrs(rec.attrs) =
                    <<KeyValue("code.filepath", StringValue("hook.go")),
                      KeyValue("code.lineno", Int64Value(Small(42)))>>
           ELSE SourceAttrs(rec.attrs) = <<>>
        /\ \A i \in 1..Len(call.logData) :
                call.logData[i].key \notin {"error", "stack", "caller"}
                    => CountKey(rec.attrs, call.logData[i].key) = 1

\* C14: the caller field never appears in the record under its own name: with
\* source capture enabled and a caller string that parses, exactly the code
\* filepath and the code line number are appended; with capture disabled, a
\* caller that is not a string, or one that does not parse, no source attribute
\* is added, and the remaining fields are still processed.
C14_CallerBecomesSource ==
    \A i \in 1..Len(calls) :
        HasField(calls[i].logData, "caller") =>
            /\ ~calls[i].panicked
            /\ CallerHandled(records[RecordOf(i)], calls[i])

C14_Witness ==
    /\ cfg.source
    /\ Len(calls) = 2
    /\ HasField(calls[1].logData, "caller")
    /\ HasField(calls[2].logData, "caller")
    /\ FieldValue(calls[1].logData, "caller") = GoString("hook.go:42")
    /\ FieldValue(calls[2].logData, "caller") = GoString("nowhere")
    /\ Len(records) = 2
    /\ CountKey(records[1].attrs, "code.lineno") = 1
    /\ CountKey(records[2].attrs, "k") = 1

\* C15: the record carries a trace and a span identifier exactly when the context
\* the event was fired in holds a valid span, both or neither, and they are those
\* of the innermost span of that context; without a span the record is emitted
\* without them.
C15_TraceIdentifiers ==
    /\ Len(records) = Len(calls)
    /\ \A i \in 1..Len(calls) :
            LET rec == records[i]
                c == calls[i].ctx
            IN  /\ (rec.traceID # "") <=> (rec.spanID # "")
                /\ (rec.spanID # "") <=> (c # <<>>)
                /\ c # <<>> => /\ rec.spanID = c[Len(c)]
                               /\ rec.traceID = "trace" \o c[1]

C15_Witness ==
    /\ Len(records) = 2
    /\ calls[1].ctx = <<>>
    /\ records[1].spanID = ""
    /\ Len(calls[2].ctx) = 2
    /\ records[2].spanID = calls[2].ctx[2]
    /\ records[2].spanID # calls[2].ctx[1]

(***************************************************************************)
(* Claims about containers, checked under SpecConv.                        *)
(***************************************************************************)
\* the i-th element of the Slice is a conversion of the i-th element of the input
ElementsPreserved(v, result) ==
    /\ result.kind = "Slice"
    /\ Len(result.items) = Len(v.items)
    /\ \A i \in 1..Len(v.items) : result.items[i] \in convertAttribute(v.items[i])

\* C16: for every slice or array input convertAttribute yields a Slice with the
\* same number of elements, whose i-th element is convertAttribute of the i-th
\* element of the input.
C16_SlicePreserved ==
    Converted =>
        /\ in.t \in {"slice", "array"} => ElementsPreserved(in, out)
        /\ in.t = "bytes" => out.kind = "Slice"

\* C16 for the conversions that returned, of slices other than []byte: it fails
\* where an element makes the conversion panic (C1), and a []byte is a Bytes value
C16_SliceOfReturningElements ==
    (Converted /\ in.t \in {"slice", "array"} /\ out.kind # "panic")
        => ElementsPreserved(in, out)

\* the entries of the Map are the conversions of the entries of the input, in some
\* order
EntriesPreserved(v, result) ==
    /\ result.kind = "Map"
    /\ Len(result.kvs) = Len(v.kvs)
    /\ \E p \in Perms(Len(v.kvs)) :
            \A i \in 1..Len(v.kvs) :
                /\ result.kvs[i].Key = MapKey(v.kvs[p[i]].key)
                /\ result.kvs[i].Value \in convertAttribute(v.kvs[p[i]].val)

\* C17: for every map input convertAttribute yields a Map with one entry per
\* input entry, the key stringified (a string key verbatim, any other key by its
\* default text) and the value convertAttribute of the input value, in any order.
C17_MapPreserved ==
    (Converted /\ in.t = "map") => EntriesPreserved(in, out)

\* C17 for the conversions that returned: it fails only where a value makes the
\* conversion panic (C1)
C17_MapOfReturningValues ==
    (Converted /\ in.t = "map" /\ out.kind # "panic") => EntriesPreserved(in, out)

\* equality of values up to the order of the entries of their maps, which is what
\* log.Value.Equal decides for maps with distinct keys; everything else is compared
\* position by position
RECURSIVE ValueEqual(_, _)
ValueEqual(v, w) ==
    /\ v.kind = w.kind
    /\ CASE v.kind = "Slice" ->
                /\ Len(v.items) = Len(w.items)
                /\ \A i \in 1..Len(v.items) : ValueEqual(v.items[i], w.items[i])
         [] v.kind = "Map" ->
                /\ Len(v.kvs) = Len(w.kvs)
                /\ \E p \in Perms(Len(v.kvs)) :
                        \A i \in 1..Len(v.kvs) :
                            /\ v.kvs[i].Key = w.kvs[p[i]].Key
                            /\ ValueEqual(v.kvs[i].Value, w.kvs[p[i]].Value)
         [] OTHER -> v = w

Routines == {1, 2}

\* number of events logged by the goroutines together
MaxConcurrentRuns == 2

\* the context of goroutine r: a span of its own, in a trace of its own
RoutineCtx(r) == <<"g" \o ToString(r)>>

\* the levels goroutine r logs at
RoutineLevels(r) == IF r = 1 THEN {InfoLevel, ErrorLevel} ELSE {DebugLevel, WarnLevel}

\* the events goroutine r logs: message, level and field values name the goroutine
RoutineEvents(r) ==
    {[enabled |-> TRUE, level |-> l, msg |-> "log " \o ToString(r), bufOK |-> TRUE, fields |-> f] :
        l \in RoutineLevels(r),
        f \in {<<Field("g", GoString(ToString(r)))>>,
               <<Field("error", GoString("boom " \o ToString(r))),
                 Field("g", GoString(ToString(r)))>>}}

NoEvent == [enabled |-> FALSE, level |-> InfoLevel, msg |-> "", bufOK |-> TRUE, fields |-> <<>>]

\* a goroutine outside Hook.Run, with what its span has received so far
Resting(r, events, errors, runs) ==
    [pc |-> "idle", e |-> NoEvent, logData |-> <<>>, acc |-> LoopStart,
     events |-> events, errors |-> errors, effects |-> <<>>, runs |-> runs]

InitConc ==
    /\ cfg \in [attachSpanError : BOOLEAN, attachSpanEvent : BOOLEAN, source : {FALSE},
                setSpanError : {FALSE}, setSpanErrorLevel : {ErrorLevel}]
    /\ routines = [r \in Routines |-> Resting(r, <<>>, <<>>, 0)]
    /\ heap = <<>>
    /\ stack = <<>>
    /\ walk = "idle"
    /\ loggerContext = "parsable"
    /\ pending = <<>>
    /\ calls = <<>>
    /\ spanEvents = <<>>
    /\ spanErrors = <<>>
    /\ spanStatus = "Unset"
    /\ records = <<>>
    /\ last = "idle"
    /\ ctx = <<>>
    /\ spansStarted = 0
    /\ writers = <<>>
    /\ applied = <<>>
    /\ built = FALSE
    /\ failed = FALSE
    /\ sinks = <<>>
    /\ in = GoNil
    /\ out = EmptyValue
    /\ prev = EmptyValue
    /\ attr = AttrInvalid
    /\ lvl = InfoLevel
    /\ sev = NoSeverity
    /\ phase = "idle"

ConcFrame ==
    UNCHANGED <<cfg, calls, spanEvents, spanErrors, spanStatus, last, ctx, spansStarted,
                loggerVars, convVars, walkVars, reportVars>>

RunsBegun == routines[1].runs + routines[2].runs

\* hook.go lines 32-48: the goroutine enters Hook.Run and parses its event's buffer
Enter(r, e) ==
    /\ routines[r].pc = "idle"
    /\ RunsBegun < MaxConcurrentRuns
    /\ routines' = [routines EXCEPT ![r] =
            [@ EXCEPT !.pc = "parsed", !.e = e, !.logData = Unmarshal(e).logData,
                      !.acc = LoopStart, !.effects = <<>>, !.runs = @ + 1]]
    /\ UNCHANGED records
    /\ ConcFrame

\* faulty variant: the converted attributes are kept in a field of the shared Hook
ConvertFieldsInHook(r) ==
    /\ routines[r].pc = "parsed"
    /\ \E p \in Perms(Len(routines[r].logData)) :
       \E acc \in Loop(cfg, LoopStart,
                       [i \in 1..Len(routines[r].logData) |-> routines[r].logData[p[i]]]) :
            routines' = [q \in Routines |->
                            IF q = r
                            THEN [routines[q] EXCEPT !.pc = "converted", !.acc = acc]
                            ELSE [routines[q] EXCEPT !.acc = acc]]
    /\ UNCHANGED records
    /\ ConcFrame

\* hook.go lines 59-99: the range over logData fills the locals of the call
ConvertFields(r) ==
    /\ routines[r].pc = "parsed"
    /\ \E p \in Perms(Len(routines[r].logData)) :
       \E acc \in Loop(cfg, LoopStart,
                       [i \in 1..Len(routines[r].logData) |-> routines[r].logData[p[i]]]) :
            routines' = [routines EXCEPT ![r] =
                [@ EXCEPT !.pc = IF acc.panicked THEN "panicked" ELSE "converted",
                          !.acc = acc]]
    /\ UNCHANGED records
    /\ ConcFrame

\* faulty variant: the record is handed to the logger before the span gets its event
AddSpanEventAfterEmit(r) ==
    /\ routines[r].pc = "converted"
    /\ routines' = [routines EXCEPT ![r] =
            [@ EXCEPT !.pc = "evented",
                      !.effects = @ \o <<"record">>
                                    \o (IF cfg.attachSpanEvent THEN <<"event">> ELSE <<>>),
                      !.events = IF cfg.attachSpanEvent
                                 THEN Append(@, SpanEvent(routines[r].e.msg,
                                                          routines[r].acc.logAttributes))
                                 ELSE @]]
    /\ records' = Append(records, sendLogMessage(RoutineCtx(r), routines[r].e.msg,
                                                 routines[r].e.level,
                                                 routines[r].acc.logAttributes))
    /\ ConcFrame

\* hook.go lines 101-115: the span of the call's context gets the event
AddSpanEvent(r) ==
    /\ routines[r].pc = "converted"
    /\ routines' = [routines EXCEPT ![r] =
            [@ EXCEPT !.pc = "evented",
                      !.effects = IF cfg.attachSpanEvent THEN Append(@, "event") ELSE @,
                      !.events = IF cfg.attachSpanEvent
                                 THEN Append(@, SpanEvent(routines[r].e.msg,
                                                          routines[r].acc.logAttributes))
                                 ELSE @]]
    /\ UNCHANGED records
    /\ ConcFrame

\* hook.go lines 117-131: error and stack join the attributes, and the span of the
\* call's context gets the exception
RecordException(r) ==
    /\ routines[r].pc = "evented"
    /\ LET acc == routines[r].acc
           done == Finish(cfg, routines[r].e.msg, acc, FALSE)
       IN  routines' = [routines EXCEPT ![r] =
                [@ EXCEPT !.pc = "recorded",
                          !.acc = [acc EXCEPT !.logAttributes = done.logAttributes],
                          !.effects = IF done.errors # <<>> THEN Append(@, "exception") ELSE @,
                          !.errors = @ \o done.errors]]
    /\ UNCHANGED records
    /\ ConcFrame

\* hook.go line 54 and lines 136-147: the record is handed to the shared logger with
\* the call's context, and Hook.Run returns
Emit(r) ==
    /\ routines[r].pc = "recorded"
    /\ records' = Append(records, sendLogMessage(RoutineCtx(r), routines[r].e.msg,
                                                 routines[r].e.level,
                                                 routines[r].acc.logAttributes))
    /\ routines' = [routines EXCEPT ![r] =
            [@ EXCEPT !.pc = "idle", !.effects = Append(@, "record")]]
    /\ ConcFrame

NextConc ==
    \E r \in Routines :
        \/ \E e \in RoutineEvents(r) : Enter(r, e)
        \/ ConvertFields(r)
        \/ AddSpanEvent(r)
        \/ RecordException(r)
        \/ Emit(r)

SpecConc == InitConc /\ [][NextConc]_vars

\* the values that name goroutine r
ValuesOf(r) == {StringValue(ToString(r)), StringValue("boom " \o ToString(r))}

\* the attributes are those of an event of goroutine r, and of no other goroutine
OwnAttrs(attrs, r) ==
    /\ \E i \in 1..Len(attrs) : attrs[i].Key = "g" /\ attrs[i].Value = StringValue(ToString(r))
    /\ \A i \in 1..Len(attrs) : \A q \in Routines \ {r} : attrs[i].Value \notin ValuesOf(q)

\* the span of goroutine r has only events and exceptions of goroutine r
OwnSpan(r) ==
    /\ \A i \in 1..Len(routines[r].events) :
        /\ routines[r].events[i].name = "log " \o ToString(r)
        /\ \A j \in 1..Len(routines[r].events[i].attrs) :
            \A q \in Routines \ {r} :
                routines[r].events[i].attrs[j].Value
                    # convertLogToAttribute(StringValue(ToString(q)))
    /\ \A i \in 1..Len(routines[r].errors) :
        routines[r].errors[i].msg = "boom " \o ToString(r)

\* the record carries the message, a severity and the attributes of the goroutine
\* whose span it names
OwnRecord(rec) ==
    \E r \in Routines :
        /\ rec.spanID = SpanContext(RoutineCtx(r)).spanID
        /\ rec.traceID = SpanContext(RoutineCtx(r)).traceID
        /\ rec.body = "log " \o ToString(r)
        /\ \E l \in RoutineLevels(r) : rec.severity = convertLevel(l)[1]
        /\ OwnAttrs(rec.attrs, r)

ConcurrentRunsApart ==
    /\ \A r \in Routines : OwnSpan(r)
    /\ \A i \in 1..Len(records) : OwnRecord(records[i])

\* C21: when two runs of the hook with different spans interleave in any order,
\* each span receives only the event and the exception of its own run, each record
\* carries only the message, severity and attributes of its own event, and no step
\* writes the configuration of the shared hook.
C21_ConcurrentRunsIsolated == []ConcurrentRunsApart /\ [][cfg' = cfg]_vars

\* both goroutines are inside Hook.Run at once, each with an error field, one having
\* recorded its exception and the other having added its span event
C21_Witness ==
    /\ cfg.attachSpanEvent /\ cfg.attachSpanError
    /\ routines # <<>>
    /\ routines[1].pc = "recorded" /\ routines[2].pc = "evented"
    /\ Len(routines[1].errors) = 1 /\ Len(routines[1].events) = 1
    /\ Len(routines[2].events) = 1
    /\ HasField(routines[2].logData, "error")

(***************************************************************************)
(* Claims about pointers, structs and unhandled kinds, checked under       *)
(* SpecConv.                                                               *)
(***************************************************************************)
\* a pointer input: a plain pointer, or a nil pointer of a type implementing error
IsPointerInput(v) == v.t \in {"ptr", "nilerrptr"}

\* C22: for a pointer or interface input convertAttribute yields Empty when it is
\* nil, and otherwise exactly the conversion of the value it refers to, through any
\* depth of pointers to pointers.
C22_PointerTransparent ==
    (Converted /\ IsPointerInput(in)) =>
        IF IsNilInput(in) THEN out = EmptyValue
        ELSE out \in convertAttribute(in.items[1])

\* C22 for the pointers whose type does not implement error: nil yields Empty, any
\* other pointer the conversion of its referent, a panic of that conversion (C1)
\* included
C22_PlainPointerTransparent ==
    (Converted /\ in.t = "ptr") =>
        IF IsNilInput(in) THEN out = EmptyValue
        ELSE out \in convertAttribute(in.items[1])

\* the value a chain of pointers leads to
RECURSIVE Referent(_)
Referent(v) == IF v.t = "ptr" /\ Len(v.items) = 1 THEN Referent(v.items[1]) ELSE v

\* the types and kinds that a case of convertAttribute matches
MatchedTypes ==
    {"bool", "string", "float32", "float64", "duration", "time", "complex64", "complex128",
     "bytes", "error", "nilerrptr", "nil", "struct", "slice", "array", "map", "ptr"}
    \cup SignedTypes \cup NarrowUnsignedTypes \cup WideUnsignedTypes

UnhandledPrefix == "unhandled: "

HasUnhandledPrefix(val) ==
    /\ val.kind = "String"
    /\ Len(val.s) >= Len(UnhandledPrefix)
    /\ SubSeq(val.s, 1, Len(UnhandledPrefix)) = UnhandledPrefix

\* C23: a struct converts to the String of its %+v formatting, field names
\* included, and never carries the "unhandled:" prefix; the String
\* "unhandled: (<type>) <value>" is produced exactly for the values that no case
\* matches, such as channels and functions.
C23_StructVerboseUnhandledOnlyUnmatched ==
    Converted =>
        LET v == Referent(in)
        IN  /\ v.t = "struct" => (out.kind = "String" /\ ~HasUnhandledPrefix(out))
            /\ v = GoStruct("main.user", <<Entry(GoString("Name"), GoString("x")),
                                           Entry(GoString("Age"), GoInt("int", Small(1)))>>)
                    => out = StringValue("{Name:x Age:1}")
            /\ v = GoStruct("main.empty", <<>>) => out = StringValue("{}")
            /\ HasUnhandledPrefix(out) <=> v.t \notin MatchedTypes
            /\ v = GoOpaque("chan", "chan int")
                    => out = StringValue("unhandled: (chan int) 0xc000010000")
            /\ v.t \notin MatchedTypes
                    => SubSeq(out.s, 1, Len(UnhandledPrefix) + Len(v.s) + 3)
                            = UnhandledPrefix \o "(" \o v.s \o ") "

\* a struct behind a pointer has been converted to its verbose formatting
C23_Witness ==
    /\ phase = "converted"
    /\ in = GoPtr(GoStruct("main.user", <<Entry(GoString("Name"), GoString("x")),
                                          Entry(GoString("Age"), GoInt("int", Small(1)))>>))
    /\ out = StringValue("{Name:x Age:1}")

C23_WitnessUnhandled ==
    /\ phase = "converted"
    /\ in = GoOpaque("func", "func()")
    /\ HasUnhandledPrefix(out)

(***************************************************************************)
(* Claims about the order of effects, checked under Spec and SpecConc.     *)
(***************************************************************************)
\* the events fired by the caller, in firing order
CallerFired == SelectSeq(calls, LAMBDA c : ~c.secondary)

\* the records, and with span-event attachment the span's events, are those of
\* these runs, one each and in the same order
InOrderOf(runs) ==
    /\ Len(records) = Len(runs)
    /\ \A i \in 1..Len(runs) :
        /\ records[i].body = runs[i].msg
        /\ <<records[i].severity, records[i].severityText>> = convertLevel(runs[i].level)
    /\ cfg.attachSpanEvent =>
        /\ Len(spanEvents) = Len(runs)
        /\ \A i \in 1..Len(runs) : spanEvents[i].name = runs[i].msg

\* C24: for any sequence of enabled events fired through one hook by one caller the
\* telemetry logger receives exactly one record per fired event, in firing order,
\* and with span-event attachment enabled the span's events appear in the same
\* order and number.
C24_OneRecordPerFiredEventInOrder == InOrderOf(CallerFired)

\* C24 for the runs of the hook that returned, the run on its own report of an
\* unparsable buffer included: it fails where a run panicked (C2)
C24_OneRecordPerCompletedRunInOrder == InOrderOf(Completed)

\* the place of an effect in the order event, exception, record
Rank(x) == CASE x = "event" -> 1 [] x = "exception" -> 2 [] x = "record" -> 3

\* the effects of the run goroutine r is in, or has just left
EffectsInOrder(r) ==
    LET fx == routines[r].effects
        past(pcs) == routines[r].runs > 0 /\ routines[r].pc \in pcs
        has(x) == \E i \in 1..Len(fx) : fx[i] = x
    IN  /\ \A i, j \in 1..Len(fx) : i < j => Rank(fx[i]) < Rank(fx[j])
        /\ past({"idle"}) => (fx # <<>> /\ fx[Len(fx)] = "record")
        /\ routines[r].pc # "idle" => ~has("record")
        /\ past({"evented", "recorded", "idle"}) => (has("event") <=> cfg.attachSpanEvent)
        /\ past({"recorded", "idle"}) =>
                (has("exception") <=>
                    (cfg.attachSpanError /\ HasField(routines[r].logData, "error")))

C25_WitnessNoAttachment ==
    /\ routines # <<>>
    /\ ~cfg.attachSpanEvent /\ ~cfg.attachSpanError
    /\ routines[2].pc = "idle"
    /\ routines[2].effects = <<"record">>
    /\ HasField(routines[2].logData, "error")

(***************************************************************************)
(* convertAttribute on linked values.  A slice or a map of `any` and a     *)
(* pointer to an `any` refer to other values in memory, possibly to        *)
(* themselves (s[0] = s, m["a"] = m, p = &p).  The recursion of            *)
(* convertAttribute is followed call by call: each call in progress is a   *)
(* frame, and the goroutine's stack holds a bounded number of them.        *)
(***************************************************************************)
\* number of values in memory
MaxNodes == 2

\* number of elements of a slice and of entries of a map in memory
MaxRefs == 1

\* number of calls of convertAttribute the stack of the goroutine holds
MaxStack == 4

Addrs == 1..MaxNodes

\* the value handed to convertAttribute
Root == 1

LinkedNodes ==
    [t : {"int"}, refs : {<<>>}]
    \cup [t : {"ptr"}, refs : SeqsUpTo(Addrs, 1)]
    \cup [t : {"slice", "map"}, refs : SeqsUpTo(Addrs, MaxRefs)]

LinkedKeys == <<"a", "b", "c">>

\* the addresses n links away from those of S, or fewer
RECURSIVE Within(_, _, _)
Within(h, S, n) ==
    IF n = 0 THEN S
    ELSE Within(h, S \cup UNION {{h[a].refs[i] : i \in 1..Len(h[a].refs)} : a \in S}, n - 1)

\* the addresses the value at a refers to, directly or not
Below(h, a) == Within(h, {h[a].refs[i] : i \in 1..Len(h[a].refs)}, MaxNodes)

\* the value handed to convertAttribute contains a value that contains itself
SelfReferential(h) == \E a \in Within(h, {Root}, MaxNodes) : a \in Below(h, a)

\* the Go value at address a, for a value that is not self-referential
RECURSIVE Unfold(_, _)
Unfold(h, a) ==
    CASE h[a].t = "int" -> GoInt("int", Small(a))
      [] h[a].t = "ptr" ->
            IF h[a].refs = <<>> THEN GoNilPtr ELSE GoPtr(Unfold(h, h[a].refs[1]))
      [] h[a].t = "slice" -> GoSlice([i \in 1..Len(h[a].refs) |-> Unfold(h, h[a].refs[i])])
      [] h[a].t = "map" ->
            GoMap([i \in 1..Len(h[a].refs) |->
                        Entry(GoString(LinkedKeys[i]), Unfold(h, h[a].refs[i]))])

\* a call of convertAttribute on the value at address a, about to visit its
\* next-th element, entry or referent
Frame(a, next) == [addr |-> a, next |-> next]

InitWalk ==
    /\ heap \in [Addrs -> LinkedNodes]
    /\ stack = <<Frame(Root, 1)>>
    /\ walk = "running"
    /\ in = GoNil
    /\ out = EmptyValue
    /\ prev = EmptyValue
    /\ attr = AttrInvalid
    /\ lvl = InfoLevel
    /\ sev = NoSeverity
    /\ phase = "idle"
    /\ cfg = [attachSpanError |-> FALSE, attachSpanEvent |-> FALSE, source |-> FALSE,
              setSpanError |-> FALSE, setSpanErrorLevel |-> ErrorLevel]
    /\ calls = <<>>
    /\ spanEvents = <<>>
    /\ spanErrors = <<>>
    /\ spanStatus = "Unset"
    /\ records = <<>>
    /\ last = "idle"
    /\ ctx = <<>>
    /\ spansStarted = 0
    /\ writers = <<>>
    /\ applied = <<>>
    /\ built = FALSE
    /\ failed = FALSE
    /\ sinks = <<>>
    /\ routines = <<>>
    /\ loggerContext = "parsable"
    /\ pending = <<>>

\* what the conversion of a linked value leaves alone
WalkFrame ==
    UNCHANGED <<heap, in, prev, attr, lvl, sev, phase, cfg, calls, spanEvents, spanErrors,
                spanStatus, records, last, ctx, spansStarted, loggerVars, routines,
                reportVars>>

\* the call in progress
Top == stack[Len(stack)]

\* the call in progress has an element, entry or referent left to convert
HasNext == Top.next <= Len(heap[Top.addr].refs)

\* part_002 lines 103, 116 and 126: the recursive call on an element, on the value
\* of an entry, on the referent of a pointer
Call ==
    /\ walk = "running"
    /\ HasNext
    /\ Len(stack) < MaxStack
    /\ stack' = Append([stack EXCEPT ![Len(stack)] = Frame(Top.addr, Top.next + 1)],
                       Frame(heap[Top.addr].refs[Top.next], 1))
    /\ UNCHANGED <<walk, out>>
    /\ WalkFrame

\* the same recursive call when the stack of the goroutine is exhausted: the
\* runtime ends the program with a stack overflow
Overflow ==
    /\ walk = "running"
    /\ HasNext
    /\ Len(stack) = MaxStack
    /\ walk' = "overflow"
    /\ UNCHANGED <<stack, out>>
    /\ WalkFrame

\* part_002 lines 105, 121 and 124-126: the call returns its value; the outermost
\* call returns the conversion of the whole value
Return ==
    /\ walk = "running"
    /\ ~HasNext
    /\ stack' = SubSeq(stack, 1, Len(stack) - 1)
    /\ IF Len(stack) = 1
       THEN /\ walk' = "done"
            /\ out' \in convertAttribute(Unfold(heap, Root))
       ELSE UNCHANGED <<walk, out>>
    /\ WalkFrame

NextWalk == Call \/ Overflow \/ Return

SpecWalk == InitWalk /\ [][NextWalk]_vars

\* C26: convertAttribute terminates for every input, the self-referential ones
\* included (a map or slice that contains itself, a cycle of pointers): the descent
\* into containers and referents is bounded and the stack is never exhausted.
C26_DescentBounded ==
    /\ walk # "overflow"
    /\ Len(stack) <= MaxNodes

\* C26 for the values that are not self-referential: the calls in progress are
\* never more than the values in memory, and the outermost call returns the
\* conversion of the value
C26_DescentBoundedWithoutCycle ==
    ~SelfReferential(heap) =>
        /\ walk # "overflow"
        /\ Len(stack) <= MaxNodes
        /\ walk = "done" => (stack = <<>> /\ out \in convertAttribute(Unfold(heap, Root)))

\* the conversion of a slice that contains itself has exhausted the stack
C26_OverflowReached ==
    /\ walk = "overflow"
    /\ heap[Root] = [t |-> "slice", refs |-> <<Root>>]

(***************************************************************************)
(* The report of an unparsable buffer.  Hook.Run logs it through the       *)
(* logger kept in the event's context, which carries the same hook: the    *)
(* report is an event of its own and zerolog calls Hook.Run on it before   *)
(* the outer Hook.Run goes on.  The buffer of an event begins with the     *)
(* fields attached to the logger (With()...Logger()), followed by the      *)
(* fields of the event.                                                    *)
(***************************************************************************)
\* number of calls of Hook.Run, one inside the other, the stack of the goroutine
\* holds
MaxNesting == 3

\* the events callers fire: parsable and not, with and without an error
ReportEvents == {e \in Events : e.enabled /\ (e.fields \in LevelFieldSets \/ ~e.bufOK)}

\* a call of Hook.Run on event e
RunFrame(e, secondary, pc) == [e |-> e, secondary |-> secondary, pc |-> pc]

\* the event Hook.Run logs when the buffer of an event at this level with this
\* message does not parse, hook.go lines 43-47
ReportEvent(level, msg) ==
    [enabled |-> TRUE, level |-> ErrorLevel, msg |-> SecondaryMessage, bufOK |-> TRUE,
     fields |-> <<Field("error", GoString(UnmarshalError)),
                  Field("log.level", GoString(LevelString(level))),
                  Field("log.message", GoString(msg))>>]

\* the buffer Hook.Run reads: the fields attached to the logger, then the event's
Buffer(e) == [e EXCEPT !.bufOK = e.bufOK /\ loggerContext = "parsable"]

InitReport ==
    /\ loggerContext \in {"parsable", "unparsable"}
    /\ pending = <<>>
    /\ cfg \in [attachSpanError : BOOLEAN, attachSpanEvent : BOOLEAN, source : {FALSE},
                setSpanError : {FALSE}, setSpanErrorLevel : {ErrorLevel}]
    /\ calls = <<>>
    /\ spanEvents = <<>>
    /\ spanErrors = <<>>
    /\ spanStatus = "Unset"
    /\ records = <<>>
    /\ last = "idle"
    /\ ctx = <<"1">>
    /\ spansStarted = 1
    /\ writers = <<>>
    /\ applied = <<>>
    /\ built = FALSE
    /\ failed = FALSE
    /\ sinks = <<>>
    /\ routines = <<>>
    /\ heap = <<>>
    /\ stack = <<>>
    /\ walk = "idle"
    /\ in = GoNil
    /\ out = EmptyValue
    /\ prev = EmptyValue
    /\ attr = AttrInvalid
    /\ lvl = InfoLevel
    /\ sev = NoSeverity
    /\ phase = "idle"

ReportFrame == UNCHANGED <<cfg, ctx, spansStarted, loggerVars, convVars, routines, walkVars>>

Innermost == pending[Len(pending)]

\* a caller logs an event: zerolog calls Hook.Run (hook.go lines 31-37)
FireEvent(e) ==
    /\ pending = <<>>
    /\ last # "overflow"
    /\ Fired(World) < MaxEvents
    /\ pending' = <<RunFrame(e, FALSE, "entered")>>
    /\ last' = "fired"
    /\ UNCHANGED <<loggerContext, calls, spanEvents, spanErrors, spanStatus, records>>
    /\ ReportFrame

\* hook.go lines 38-41: the buffer parses
Parse ==
    /\ pending # <<>>
    /\ Innermost.pc = "entered"
    /\ ~Unmarshal(Buffer(Innermost.e)).err
    /\ pending' = [pending EXCEPT ![Len(pending)].pc = "parsed"]
    /\ UNCHANGED <<loggerContext, last, calls, spanEvents, spanErrors, spanStatus, records>>
    /\ ReportFrame

\* hook.go lines 41-48: the buffer does not parse; the report is logged through
\* zlog.Ctx(e.GetCtx()), and zerolog calls Hook.Run on it
Report ==
    /\ pending # <<>>
    /\ Innermost.pc = "entered"
    /\ Unmarshal(Buffer(Innermost.e)).err
    /\ Len(pending) < MaxNesting
    /\ pending' = Append([pending EXCEPT ![Len(pending)].pc = "reporting"],
                         RunFrame(ReportEvent(Innermost.e.level, Innermost.e.msg),
                                  TRUE, "entered"))
    /\ UNCHANGED <<loggerContext, last, calls, spanEvents, spanErrors, spanStatus, records>>
    /\ ReportFrame

\* the same call with the stack of the goroutine exhausted
ReportOverflow ==
    /\ pending # <<>>
    /\ Innermost.pc = "entered"
    /\ Unmarshal(Buffer(Innermost.e)).err
    /\ Len(pending) = MaxNesting
    /\ last' = "overflow"
    /\ pending' = [pending EXCEPT ![Len(pending)].pc = "overflow"]
    /\ UNCHANGED <<loggerContext, calls, spanEvents, spanErrors, spanStatus, records>>
    /\ ReportFrame

\* hook.go lines 50-55: the attributes are processed, the record is emitted, and
\* Hook.Run returns to its caller
Deliver ==
    /\ pending # <<>>
    /\ Innermost.pc \in {"parsed", "reported"}
    /\ LET f == Innermost
           logData == IF f.pc = "parsed" THEN Unmarshal(Buffer(f.e)).logData ELSE <<>>
       IN  \E w \in Fire(World, cfg, f.e.level, f.e.msg, logData, f.secondary) :
                /\ calls' = w.calls
                /\ spanEvents' = w.spanEvents
                /\ spanErrors' = w.spanErrors
                /\ spanStatus' = w.spanStatus
                /\ records' = w.records
    /\ pending' = IF Len(pending) = 1 THEN <<>>
                  ELSE [SubSeq(pending, 1, Len(pending) - 1)
                            EXCEPT ![Len(pending) - 1].pc = "reported"]
    /\ UNCHANGED <<loggerContext, last>>
    /\ ReportFrame

NextReport ==
    \/ \E e \in ReportEvents : FireEvent(e)
    \/ Parse
    \/ Report
    \/ ReportOverflow
    \/ Deliver

SpecReport == InitReport /\ [][NextReport]_vars

\* the reports logged so far, and the events whose buffer did not parse
ReportsLogged == Cardinality({i \in 1..Len(calls) : calls[i].secondary})

\* the calls of Hook.Run in progress that are runs on a report
ReportsInProgress == Cardinality({i \in 1..Len(pending) : pending[i].secondary})

ChainFinite ==
    /\ last # "overflow"
    /\ ReportsInProgress <= 1
    /\ \A i \in 1..Len(pending) : pending[i].secondary => pending[i].pc # "reporting"
    /\ ReportsLogged <= Fired(World) + (IF pending # <<>> THEN 1 ELSE 0)

\* C27: the chain of calls of the hook caused by one event whose buffer does not
\* parse is finite: the run on the report does not fail to parse and report again,
\* also when the unparsable content is attached to the logger and so is in every
\* event; at most one report is logged per failing event, and Hook.Run returns.
C27_ReportChainFinite == ChainFinite

\* C27 when the unparsable content is in the fields of the event itself
C27_ReportChainFiniteForEventFields == loggerContext = "parsable" => ChainFinite

(***************************************************************************)
(* Claims about the span status and the severity of the record, checked    *)
(* under Spec.                                                             *)
(***************************************************************************)
\* a record at severity ERROR or FATAL has been emitted
ErrorRecordEmitted ==
    \E i \in 1..Len(records) : records[i].severity \in {SeverityError, SeverityFatal}

\* the span is marked failed only with a record at ERROR or FATAL, and never by
\* events whose level maps to INFO
StatusAgreesWithSeverity ==
    /\ spanStatus = "Error" => ErrorRecordEmitted
    /\ (\A i \in 1..Len(calls) : convertLevel(calls[i].level)[1] = SeverityInfo)
            => spanStatus = "Unset"

\* C28: whenever an event sets the span's status to Error, the record emitted for
\* it has severity ERROR or FATAL: an event whose level maps to INFO under
\* convertLevel, a no-level or unrecognized level included, never marks the span
\* as failed.
C28_StatusErrorOnlyWithErrorRecord == StatusAgreesWithSeverity

\* C28 for events at the levels convertLevel has a case for, Trace to Panic
C28_StatusErrorOnlyWithErrorRecordAtNamedLevels ==
    (\A i \in 1..Len(calls) : calls[i].level \in TraceLevel..PanicLevel)
        => StatusAgreesWithSeverity

(***************************************************************************)
(* Claims about the keys of maps and the types of attributes.              *)
(***************************************************************************)
KeysDistinct(val) ==
    \A i, j \in 1..Len(val.kvs) : i # j => val.kvs[i].Key # val.kvs[j].Key

\* C29: the keys of a Map produced by convertAttribute are pairwise distinct: two
\* distinct keys of the input map never stringify to the same key, the integer key
\* 1 and the string key "1" of a map with mixed key types included.
C29_MapKeysDistinct ==
    (Converted /\ out.kind = "Map") => KeysDistinct(out)

\* C29 for the maps whose keys are all strings: the keys are taken verbatim
C29_StringKeysDistinct ==
    (Converted /\ in.t = "map" /\ out.kind = "Map"
        /\ \A i \in 1..Len(in.kvs) : in.kvs[i].key.t = "string")
        => KeysDistinct(out)

(***************************************************************************)
(* A typed field on its way to the record.  The caller adds the field to   *)
(* the event with a typed method (Int, Str, Dur, Time, ...); zerolog       *)
(* appends it to the event's buffer as JSON; Hook.Run parses the buffer    *)
(* with json.Unmarshal into a map[string]any and converts what it finds.   *)
(***************************************************************************)
\* the float64 json.Unmarshal yields for an integer written in decimal: exact
\* below 10^14, rounded to 53 bits above
JSONInteger(n) ==
    JSONNumber(IF n[2] = 0 THEN FormatInt(n) ELSE "float64(" \o FormatInt(n) \o ")")

\* the value json.Unmarshal puts into logData for a field logged with value v
RECURSIVE ThroughBuffer(_)
ThroughBuffer(v) ==
    CASE v.t \in {"bool", "string", "float64", "nil"} -> v
      [] v.t \in IntegerTypes -> JSONInteger(v.n)
      \* Float32 is written with the digits of the 32-bit value
      [] v.t = "float32" -> JSONNumber(v.s)
      \* Dur is written as a number of milliseconds
      [] v.t = "duration" -> JSONNumber(IF v.n = Z(0, 0, 100, 0) THEN "1000" ELSE "ms")
      \* Time is written as a string in time.RFC3339
      [] v.t = "time" ->
            GoString(IF v.n = Z(0, 17307, 3920000, 0) THEN "2024-11-04T16:53:20Z"
                     ELSE "RFC3339")
      \* Bytes is written as a string
      [] v.t = "bytes" -> GoString(v.s)
      \* Ints, Strs and the like are written as arrays
      [] v.t \in {"slice", "array"} ->
            GoSlice([i \in 1..Len(v.items) |-> ThroughBuffer(v.items[i])])
      [] OTHER -> GoString(FmtPlusV(v))

\* the values callers log with the typed methods of zerolog.Event
LoggedInputs ==
    {v \in IntegerInputs : v.t # "uintptr"}
    \cup {GoBool(TRUE), GoBool(FALSE), GoString("test"), GoString(""),
          GoFloat("float32", "10.222"), GoFloat("float32", "0.5"),
          GoFloat("float64", "10.1"),
          GoInt("duration", Z(0, 0, 100, 0)), GoInt("time", Z(0, 17307, 3920000, 0)),
          GoBytes("abcd"), GoNil,
          GoSlice(<<GoInt("int", Small(1)), GoInt("int", Small(2))>>),
          GoSlice(<<GoString("a")>>)}

\* the name of the field
LoggedKey == "k"

InitField ==
    /\ in \in LoggedInputs
    /\ phase = "input"
    /\ out = EmptyValue
    /\ prev = EmptyValue
    /\ attr = AttrInvalid
    /\ lvl = InfoLevel
    /\ sev = NoSeverity
    /\ cfg \in [attachSpanError : BOOLEAN, attachSpanEvent : BOOLEAN, source : {FALSE},
                setSpanError : {FALSE}, setSpanErrorLevel : {ErrorLevel}]
    /\ calls = <<>>
    /\ spanEvents = <<>>
    /\ spanErrors = <<>>
    /\ spanStatus = "Unset"
    /\ records = <<>>
    /\ last = "idle"
    /\ ctx = <<"1">>
    /\ spansStarted = 1
    /\ NoLogger

\* the event logged with the field: Hook.Run on it, hook.go lines 31-55
LogField ==
    /\ phase = "input"
    /\ LET e == [enabled |-> TRUE, level |-> InfoLevel, msg |-> "test log", bufOK |-> TRUE,
                 fields |-> <<Field(LoggedKey, ThroughBuffer(in))>>]
       IN  RunBody(e)
    /\ phase' = "logged"
    /\ last' = "fired"
    /\ UNCHANGED <<in, out, prev, attr, lvl, sev, cfg, ctx, spansStarted, loggerVars,
                   routines, walkVars, reportVars>>

\* the attribute reaches the span event through convertLogToAttribute
BridgeField ==
    /\ phase = "logged"
    /\ Len(records) = 1
    /\ \E i \in 1..Len(records[1].attrs) :
        /\ records[1].attrs[i].Key = LoggedKey
        /\ out' = records[1].attrs[i].Value
        /\ attr' = convertLogToAttribute(records[1].attrs[i].Value)
    /\ phase' = "bridged"
    /\ UNCHANGED <<in, prev, lvl, sev, hookVars>>

NextField == LogField \/ BridgeField

SpecField == InitField /\ [][NextField]_vars

\* the attributes of the record with the name of the logged field
EmittedField ==
    {records[1].attrs[i].Value :
        i \in {j \in 1..Len(records[1].attrs) : records[1].attrs[j].Key = LoggedKey}}

\* C30: an attribute that reaches the record through Hook.Run keeps the type it was
\* logged with: a field logged as an integer is emitted as Int64, not Float64, and
\* in general the kind of the emitted attribute is the kind convertAttribute gives
\* the logged value.
C30_AttributeKeepsLoggedKind ==
    phase \in {"logged", "bridged"} =>
        /\ Cardinality(EmittedField) = 1
        /\ \A a \in EmittedField : \E o \in convertAttribute(in) : a.kind = o.kind

\* C30 for the fields JSON has a type for: strings, booleans, 64-bit floats and
\* nil are emitted as convertAttribute of the logged value
C30_AttributeKeepsJSONTypes ==
    (phase \in {"logged", "bridged"} /\ in.t \in {"bool", "string", "float64", "nil"}) =>
        /\ Cardinality(EmittedField) = 1
        /\ EmittedField \subseteq convertAttribute(in)

====
